---- MODULE Spec2Model ----
(***************************************************************************)
(* Model of the cleaning-and-analysis engine of src/src/utils/dataAnalysis.ts *)
(* (the spreadsheet path of parseDataset, cleanDataset,                    *)
(* analyzeColumnsForCleaning, analyzeData and its helpers).                *)
(*                                                                         *)
(* JavaScript values are modelled as records [k, n, d, s]:                 *)
(*   k = "num"   the number n/d (an exact rational, d > 0, lowest terms)   *)
(*   k = "nan"   the number NaN                                            *)
(*   k = "inf"   the numbers +Infinity (n = 1) and -Infinity (n = -1)      *)
(*   k = "bool"  true (n = 1) or false (n = 0)                             *)
(*   k = "str"   a string: s = "#" is the decimal rendering String(n/d) of *)
(*               a number, any other s is the literal text s               *)
(*   k = "null", k = "undef"   null and undefined (an absent key)          *)
(* Arithmetic is exact: floating-point rounding is not modelled.           *)
(* A row is a JavaScript object: a sequence of [key, val] pairs in key     *)
(* insertion order.                                                        *)
(***************************************************************************)
EXTENDS Integers, Sequences, FiniteSets, TLC

VARIABLES origin, rawData, columns, data, cleanStatus, cleanedData,
          cleanedRefs, cleaningReport, recleanStatus, recleanedData,
          recleanedRefs, recleanReport, analysisOf, analysis, app, file

vars == <<origin, rawData, columns, data, cleanStatus, cleanedData,
          cleanedRefs, cleaningReport, recleanStatus, recleanedData,
          recleanedRefs, recleanReport, analysisOf, analysis, app, file>>

\* ------------------------------------------------------------------ numbers

Abs(i) == IF i < 0 THEN -i ELSE i

RECURSIVE Gcd(_, _)
Gcd(a, b) == IF b = 0 THEN a ELSE Gcd(b, a % b)

NaN == [k |-> "nan", n |-> 0, d |-> 1, s |-> ""]
Inf(sign) == [k |-> "inf", n |-> sign, d |-> 1, s |-> ""]

\* The number n/d in lowest terms (d # 0).
Rat(n, d) ==
  LET g == Gcd(Abs(n), Abs(d))
      sg == IF d < 0 THEN -1 ELSE 1
  IN [k |-> "num", n |-> (sg * n) \div g, d |-> (sg * d) \div g, s |-> ""]

Num(i) == [k |-> "num", n |-> i, d |-> 1, s |-> ""]
Bool(b) == [k |-> "bool", n |-> IF b THEN 1 ELSE 0, d |-> 1, s |-> ""]
Str(t) == [k |-> "str", n |-> 0, d |-> 1, s |-> t]
Null == [k |-> "null", n |-> 0, d |-> 1, s |-> ""]
Undef == [k |-> "undef", n |-> 0, d |-> 1, s |-> ""]
\* String(x) of a finite number x: its decimal rendering.
NumStr(x) == [k |-> "str", n |-> x.n, d |-> x.d, s |-> "#"]

IsNum(v) == v.k = "num"
TypeofNumber(v) == v.k \in {"num", "nan", "inf"}

\* JavaScript arithmetic on numbers (IEEE special values included); common
\* factors are cancelled before the products are formed.
Add(a, b) ==
  IF a.k = "nan" \/ b.k = "nan" THEN NaN
  ELSE IF a.k = "inf" THEN (IF b.k = "inf" /\ b.n # a.n THEN NaN ELSE a)
  ELSE IF b.k = "inf" THEN b
  ELSE LET g == Gcd(a.d, b.d)
       IN Rat(a.n * (b.d \div g) + b.n * (a.d \div g), (a.d \div g) * b.d)

Neg(a) == IF a.k = "num" THEN Rat(-a.n, a.d)
          ELSE IF a.k = "inf" THEN Inf(-a.n) ELSE NaN

Sub(a, b) == Add(a, Neg(b))

Sign(a) == IF a.n > 0 THEN 1 ELSE IF a.n < 0 THEN -1 ELSE 0

Mul(a, b) ==
  IF a.k = "nan" \/ b.k = "nan" THEN NaN
  ELSE IF a.k = "inf" \/ b.k = "inf"
       THEN (IF Sign(a) * Sign(b) = 0 THEN NaN ELSE Inf(Sign(a) * Sign(b)))
  ELSE LET g1 == Gcd(Abs(a.n), b.d)
           g2 == Gcd(Abs(b.n), a.d)
       IN Rat((a.n \div g1) * (b.n \div g2), (a.d \div g2) * (b.d \div g1))

\* a / b: x/0 is NaN for x = 0 and an infinity otherwise.
Div(a, b) ==
  IF a.k = "nan" \/ b.k = "nan" THEN NaN
  ELSE IF a.k = "inf" THEN (IF b.k = "inf" THEN NaN
                            ELSE Inf(a.n * (IF b.n < 0 THEN -1 ELSE 1)))
  ELSE IF b.k = "inf" THEN Num(0)
  ELSE IF b.n = 0 THEN (IF a.n = 0 THEN NaN ELSE Inf(Sign(a)))
  ELSE LET g1 == Gcd(Abs(a.n), Abs(b.n))
           g2 == Gcd(a.d, b.d)
       IN Rat((a.n \div g1) * (b.d \div g2), (a.d \div g2) * (b.n \div g1))

\* a < b on numbers; every comparison with NaN is false.
Lt(a, b) ==
  IF a.k = "nan" \/ b.k = "nan" THEN FALSE
  ELSE IF a.k = "inf" THEN a.n < 0 /\ ~(b.k = "inf" /\ b.n < 0)
  ELSE IF b.k = "inf" THEN b.n > 0
  ELSE a.n * b.d < b.n * a.d

Gt(a, b) == Lt(b, a)
Le(a, b) == a.k # "nan" /\ b.k # "nan" /\ ~Lt(b, a)
Ge(a, b) == Le(b, a)

\* x || 0 on a number: 0, NaN and undefined are falsy.
OrZero(x) == IF x.k = "undef" \/ x.k = "nan" \/ (x.k = "num" /\ x.n = 0)
             THEN Num(0) ELSE x

\* ------------------------------------------------------------- conversions

\* Number(s) for the literal strings of the model; NaN for text that is no number.
NumberOfLiteral(t) ==
  IF t = "" \/ t = " " THEN Num(0)
  ELSE IF t = "5.0" THEN Num(5)
  ELSE IF t = "Infinity" THEN Inf(1)
  ELSE IF t = "-Infinity" THEN Inf(-1)
  ELSE NaN

\* Number(v)
ToNumber(v) ==
  CASE v.k = "num" -> v
    [] v.k = "nan" -> v
    [] v.k = "inf" -> v
    [] v.k = "bool" -> Num(v.n)
    [] v.k = "null" -> Num(0)
    [] v.k = "undef" -> NaN
    [] v.k = "str" -> IF v.s = "#" THEN Rat(v.n, v.d) ELSE NumberOfLiteral(v.s)

\* String(v)
StringOf(v) ==
  CASE v.k = "str" -> v
    [] v.k = "num" -> NumStr(v)
    [] v.k = "nan" -> Str("NaN")
    [] v.k = "inf" -> IF v.n > 0 THEN Str("Infinity") ELSE Str("-Infinity")
    [] v.k = "bool" -> IF v.n = 1 THEN Str("true") ELSE Str("false")
    [] v.k = "null" -> Str("null")
    [] v.k = "undef" -> Str("undefined")

\* s.toLowerCase() on the texts of the model.
LowerText(t) ==
  CASE t = "NY" -> "ny"
    [] t = "LA" -> "la"
    [] t = "YES" -> "yes"
    [] t = "TRUE" -> "true"
    [] t = "FALSE" -> "false"
    [] t = "Unknown" -> "unknown"
    [] t = "NaN" -> "nan"
    [] t = "Infinity" -> "infinity"
    [] t = "-Infinity" -> "-infinity"
    [] OTHER -> t

ToLowerCase(v) == IF v.s = "#" THEN v ELSE Str(LowerText(v.s))

\* s.trim() on the texts of the model (" " is the one with white space).
Trim(v) == IF v = Str(" ") THEN Str("") ELSE v

\* v === null || v === undefined || v === ''
IsMissing(v) == v.k = "null" \/ v.k = "undef" \/ v = Str("")

\* ['true','false','1','0','yes','no'].includes(String(v).toLowerCase())
BooleanWords == {Str("true"), Str("false"), NumStr(Num(1)), NumStr(Num(0)),
                 Str("yes"), Str("no")}
TrueWords == {Str("true"), NumStr(Num(1)), Str("yes"), Str("y")}
FalseWords == {Str("false"), NumStr(Num(0)), Str("no"), Str("n")}

\* ------------------------------------------------------------------- rows

Range(f) == {f[i] : i \in DOMAIN f}

HasKey(row, col) == \E i \in DOMAIN row : row[i].key = col

\* row[col]
Get(row, col) ==
  IF HasKey(row, col)
  THEN row[CHOOSE i \in DOMAIN row : row[i].key = col].val
  ELSE Undef

\* { ...row, [col]: v } and row[col] = v: an existing key keeps its place, a new
\* key is appended.
SetField(row, col, v) ==
  IF HasKey(row, col)
  THEN [i \in DOMAIN row |-> IF row[i].key = col
                              THEN [key |-> col, val |-> v] ELSE row[i]]
  ELSE Append(row, [key |-> col, val |-> v])

\* Object.values(row)
ObjectValues(row) == [i \in DOMAIN row |-> row[i].val]

CountSeq(seq, P(_)) == Cardinality({i \in DOMAIN seq : P(seq[i])})

\* array.map(f)
MapSeq(seq, F(_)) == [i \in DOMAIN seq |-> F(seq[i])]

\* JSON.stringify(row): keys in insertion order, undefined members dropped,
\* NaN and the infinities written as null.
JsonStringify(row) ==
  LET kept == SelectSeq(row, LAMBDA p : p.val.k # "undef")
  IN [i \in DOMAIN kept |->
        [key |-> kept[i].key,
         val |-> IF kept[i].val.k \in {"nan", "inf"} THEN Null ELSE kept[i].val]]

\* --------------------------------------------------------------- sequences

\* The elements of seq that equal no earlier element, in order (a seen-set filter).
RECURSIVE KeepFirst(_)
KeepFirst(seq) ==
  IF seq = <<>> THEN <<>>
  ELSE LET front == SubSeq(seq, 1, Len(seq) - 1)
           last == seq[Len(seq)]
       IN IF \E i \in DOMAIN front : front[i] = last
          THEN KeepFirst(front)
          ELSE Append(KeepFirst(front), last)

RECURSIVE InsertAsc(_, _)
InsertAsc(sorted, x) ==
  IF sorted = <<>> THEN <<x>>
  ELSE IF Lt(x, sorted[1]) THEN <<x>> \o sorted
  ELSE <<sorted[1]>> \o InsertAsc(Tail(sorted), x)

\* nums.sort((a, b) => a - b)
RECURSIVE SortAsc(_)
SortAsc(seq) ==
  IF seq = <<>> THEN <<>>
  ELSE InsertAsc(SortAsc(SubSeq(seq, 1, Len(seq) - 1)), seq[Len(seq)])

\* Math.floor(len * 0.25), Math.floor(len * 0.75)
QuarterIndex(len) == len \div 4
ThreeQuarterIndex(len) == (3 * len) \div 4

\* A slip: the lower of the two middle elements for an even length.
HalfIndexLower(len) == (len - 1) \div 2

\* Math.floor(len / 2)
HalfIndex(len) == len \div 2

\* sorted[index] of a JavaScript array: undefined out of range.
At(seq, index) == IF index + 1 \in DOMAIN seq THEN seq[index + 1] ELSE Undef

\* ------------------------------------------------------- frequency objects

\* A property key that is an array index: such keys are enumerated first, in
\* ascending numeric order, before the other keys in insertion order.
IsIndexKey(key) == key.s = "#" /\ key.d = 1 /\ key.n >= 0

\* Object.entries(frequency) for the frequency object built by counting the
\* keys in order: [value, count] pairs in property enumeration order.
FrequencyEntries(keys) ==
  LET distinct == KeepFirst(keys)
      indexKeys == SelectSeq(distinct, IsIndexKey)
      otherKeys == SelectSeq(distinct, LAMBDA key : ~IsIndexKey(key))
      sortedIdx == MapSeq(SortAsc(MapSeq(indexKeys, ToNumber)), NumStr)
      ordered == sortedIdx \o otherKeys
  IN [i \in DOMAIN ordered |->
        [value |-> ordered[i],
         count |-> Cardinality({j \in DOMAIN keys : keys[j] = ordered[i]})]]

\* entries.reduce((a, b) => frequency[a[0]] > frequency[b[0]] ? a : b) from acc.
RECURSIVE ReduceMode(_, _)
ReduceMode(acc, rest) ==
  IF rest = <<>> THEN acc
  ELSE ReduceMode(IF acc.count > rest[1].count THEN acc ELSE rest[1], Tail(rest))

\* ------------------------------------------------ analyzeColumnsForCleaning

\* typeof v === 'number' || (!isNaN(Number(v)) && v !== '')
IsNumericForCleaning(v) ==
  TypeofNumber(v) \/ (ToNumber(v).k # "nan" /\ v # Str(""))

\* typeof v === 'boolean' || [...].includes(String(v).toLowerCase())
IsBooleanLike(v) == v.k = "bool" \/ ToLowerCase(StringOf(v)) \in BooleanWords

\* numericValues.length / values.length > 0.7 (0 / 0 is NaN: not greater)
ExceedsCleaningThreshold(numericCount, count) ==
  count > 0 /\ 10 * numericCount > 7 * count

\* The type given to a column with these non-empty values.
CleaningType(values, numericValues) ==
  IF ExceedsCleaningThreshold(Len(numericValues), Len(values)) THEN "numeric"
  ELSE IF \E i \in DOMAIN values : IsBooleanLike(values[i]) THEN "boolean"
  ELSE "categorical"

\* The statistics for imputation: nums are the sorted numeric values, entries
\* the entries of the frequency object; threw marks the TypeError of reduce on
\* an empty array with no initial value.
ColumnInfoOf(type, values, nums, entries) ==
  IF type = "numeric"
  THEN [type |-> type, values |-> values,
        median |-> At(nums, HalfIndex(Len(nums))),
        q1 |-> At(nums, QuarterIndex(Len(nums))),
        q3 |-> At(nums, ThreeQuarterIndex(Len(nums))),
        mode |-> Undef, threw |-> FALSE]
  ELSE [type |-> type, values |-> values,
        median |-> Undef, q1 |-> Undef, q3 |-> Undef,
        mode |-> IF entries = <<>> THEN Undef
                 ELSE ReduceMode(entries[1], Tail(entries)).value,
        threw |-> entries = <<>>]

ProfileValues(values, numericValues) ==
  ColumnInfoOf(CleaningType(values, numericValues), values,
               SortAsc(MapSeq(numericValues, ToNumber)),
               FrequencyEntries(MapSeq(values, StringOf)))

\* The non-empty values of a column.
NonEmptyValues(rows, col) ==
  SelectSeq(MapSeq(rows, LAMBDA row : Get(row, col)), LAMBDA v : ~IsMissing(v))

\* One column's entry of analyzeColumnsForCleaning.
AnalyzeColumnForCleaning(values) ==
  ProfileValues(values, SelectSeq(values, IsNumericForCleaning))

AnalyzeColumnsForCleaning(rows, cols) ==
  [i \in DOMAIN cols |-> AnalyzeColumnForCleaning(NonEmptyValues(rows, cols[i]))]

\* ------------------------------------------------------------ cleanDataset

\* array.filter(callback): the elements whose callback result mask[i] is true,
\* in order (the same objects, in a new array).
RECURSIVE Keep(_, _)
Keep(seq, mask) ==
  IF seq = <<>> THEN <<>>
  ELSE LET front == Keep(SubSeq(seq, 1, Len(seq) - 1), SubSeq(mask, 1, Len(seq) - 1))
       IN IF mask[Len(seq)] THEN Append(front, seq[Len(seq)]) ELSE front

\* Step 1: a row is kept when it has some non-empty value.
HasValueMask(rows) ==
  [r \in DOMAIN rows |-> \E i \in DOMAIN rows[r] : ~IsMissing(rows[r][i].val)]

RemoveEmptyRows(rows) == Keep(rows, HasValueMask(rows))

\* Step 2: a row is kept when its JSON text was not seen before.
FirstSeenMask(rows) ==
  [r \in DOMAIN rows |->
     ~\E q \in 1..(r - 1) : JsonStringify(rows[q]) = JsonStringify(rows[r])]

RemoveDuplicateRows(rows) == Keep(rows, FirstSeenMask(rows))

\* A slip: the row written in place (const cleanedRow = row).
SameObject(ref) == ref

\* { ...row }: a new object. Objects are told apart by a reference: i > 0 is
\* the i-th row object of the caller's array, 0 an object made by cleanDataset.
SpreadCopy(ref) == 0

\* The caller's row objects after the objects targets[r] have received the
\* cells rows[r].
Written(input, targets, rows) ==
  [i \in DOMAIN input |->
     IF \E r \in DOMAIN targets : targets[r] = i
     THEN rows[CHOOSE r \in DOMAIN targets : targets[r] = i]
     ELSE input[i]]

\* cleanedData = cleanedData.map(...): the new rows, the objects that hold them
\* and the effect of the writes on the caller's objects.
Store(st, targets, rows) ==
  [st EXCEPT !.rows = rows, !.refs = targets,
             !.input = Written(st.input, targets, rows)]

\* colInfo.mode || 'Unknown'
OrUnknown(mode) == IF mode.k = "undef" \/ mode = Str("") THEN Str("Unknown") ELSE mode

\* A slip: the boolean branch of step 4 left out (the cell stays as it is).
ImputedValueNoBoolean(colInfo) ==
  CASE colInfo.type = "numeric" -> OrZero(colInfo.median)
    [] colInfo.type = "categorical" -> OrUnknown(colInfo.mode)
    [] colInfo.type = "boolean" -> Null

\* A slip: only the numeric branch of step 4 present.
ImputedValueNumericOnly(colInfo) ==
  CASE colInfo.type = "numeric" -> OrZero(colInfo.median)
    [] colInfo.type = "categorical" -> Null
    [] colInfo.type = "boolean" -> Null

\* Step 4: the value written into a missing cell of a column.
ImputedValue(colInfo) ==
  CASE colInfo.type = "numeric" -> OrZero(colInfo.median)
    [] colInfo.type = "categorical" -> OrUnknown(colInfo.mode)
    [] colInfo.type = "boolean" -> Bool(FALSE)

\* Step 4 on one row: columns i..Len(cols) in order.
RECURSIVE ImputeRow(_, _, _, _)
ImputeRow(row, cols, info, i) ==
  IF i > Len(cols) THEN row
  ELSE ImputeRow(IF IsMissing(Get(row, cols[i]))
                 THEN SetField(row, cols[i], ImputedValue(info[i]))
                 ELSE row,
                 cols, info, i + 1)

\* A slip: handledMissingValues counted once per row (the increment after
\* columns.forEach).
MissingRows(rows, cols) ==
  Cardinality({r \in DOMAIN rows : \E i \in DOMAIN cols : IsMissing(Get(rows[r], cols[i]))})

\* handledMissingValues: the cells step 4 fills (the column names are distinct).
MissingCells(rows, cols) ==
  Cardinality({rc \in (DOMAIN rows) \X (DOMAIN cols) :
                 IsMissing(Get(rows[rc[1]], cols[rc[2]]))})

\* Step 5: the capping bounds of a column.
LowerBound(colInfo) ==
  Sub(OrZero(colInfo.q1),
      Mul(Rat(3, 2), Sub(OrZero(colInfo.q3), OrZero(colInfo.q1))))
UpperBound(colInfo) ==
  Add(OrZero(colInfo.q3),
      Mul(Rat(3, 2), Sub(OrZero(colInfo.q3), OrZero(colInfo.q1))))

OutlierMinValues == 10

\* colInfo.type === 'numeric' && colInfo.values.length > 10
IsCapped(colInfo) == colInfo.type = "numeric" /\ Len(colInfo.values) > OutlierMinValues

\* typeof value === 'number' && (value < lowerBound || value > upperBound)
IsOutlier(value, lowerBound, upperBound) ==
  TypeofNumber(value) /\ (Lt(value, lowerBound) \/ Gt(value, upperBound))

\* The capped value of an outlier.
Capped(value, lowerBound, upperBound) ==
  IF Lt(value, lowerBound) THEN lowerBound ELSE upperBound

CapRow(row, col, lowerBound, upperBound) ==
  IF IsOutlier(Get(row, col), lowerBound, upperBound)
  THEN SetField(row, col, Capped(Get(row, col), lowerBound, upperBound))
  ELSE row

CappingLine(found, col) ==
  [pass |-> "Capped outliers in column", count |-> found, column |-> col]

\* Step 5 for one capped column: the rows, the count and the action lines.
CapColumn(st, col, lowerBound, upperBound, found) ==
  [Store(st,
         [r \in DOMAIN st.rows |->
            IF IsOutlier(Get(st.rows[r], col), lowerBound, upperBound)
            THEN SpreadCopy(st.refs[r]) ELSE st.refs[r]],
         MapSeq(st.rows, LAMBDA row : CapRow(row, col, lowerBound, upperBound)))
     EXCEPT  !.outliersTreated = @ + found,
             !.actions = IF found > 0 THEN Append(@, CappingLine(found, col)) ELSE @]

CountOutliers(rows, col, lowerBound, upperBound) ==
  CountSeq(rows, LAMBDA row : IsOutlier(Get(row, col), lowerBound, upperBound))

CapColumnWithin(st, col, lowerBound, upperBound) ==
  CapColumn(st, col, lowerBound, upperBound,
            CountOutliers(st.rows, col, lowerBound, upperBound))

\* Step 5 for columns i..Len(cols).
RECURSIVE CapOutliers(_, _, _, _)
CapOutliers(st, cols, info, i) ==
  IF i > Len(cols) THEN st
  ELSE CapOutliers(IF IsCapped(info[i])
                   THEN CapColumnWithin(st, cols[i], LowerBound(info[i]), UpperBound(info[i]))
                   ELSE st,
                   cols, info, i + 1)

\* Step 6: the standardized value of a cell, and whether it counts as a correction.
Standardized(value, colInfo) ==
  IF colInfo.type = "numeric" /\ ~TypeofNumber(value)
  THEN (IF ToNumber(value).k # "nan" THEN ToNumber(value) ELSE value)
  ELSE IF colInfo.type = "boolean" /\ value.k # "bool"
  THEN (IF ToLowerCase(StringOf(value)) \in TrueWords THEN Bool(TRUE)
        ELSE IF ToLowerCase(StringOf(value)) \in FalseWords THEN Bool(FALSE)
        ELSE value)
  ELSE value

IsCorrected(value, colInfo) ==
  (colInfo.type = "numeric" /\ ~TypeofNumber(value) /\ ToNumber(value).k # "nan")
  \/ (colInfo.type = "boolean" /\ value.k # "bool"
      /\ ToLowerCase(StringOf(value)) \in (TrueWords \cup FalseWords))

\* Step 6 on one row: a changed cell is assigned, an unchanged one is left alone
\* (an absent key stays absent).
RECURSIVE StandardizeRow(_, _, _, _)
StandardizeRow(row, cols, info, i) ==
  IF i > Len(cols) THEN row
  ELSE StandardizeRow(IF IsCorrected(Get(row, cols[i]), info[i])
                      THEN SetField(row, cols[i], Standardized(Get(row, cols[i]), info[i]))
                      ELSE row,
                      cols, info, i + 1)

CorrectedCells(rows, cols, info) ==
  Cardinality({rc \in (DOMAIN rows) \X (DOMAIN cols) :
                 IsCorrected(Get(rows[rc[1]], cols[rc[2]]), info[rc[2]])})

\* Step 7: nonNullValues / columns.length >= 0.5
IsDenseRow(row, cols) ==
  LET nonNull == CountSeq(ObjectValues(row), LAMBDA v : ~IsMissing(v))
  IN IF Len(cols) = 0 THEN nonNull > 0 ELSE 2 * nonNull >= Len(cols)

DenseMask(rows, cols) == [r \in DOMAIN rows |-> IsDenseRow(rows[r], cols)]

RemoveSparseRows(rows, cols) == Keep(rows, DenseMask(rows, cols))

Line(pass, count) == [pass |-> pass, count |-> count, column |-> ""]

\* actions.push(line) when the pass removed or changed something.
PushIf(actions, count, pass) ==
  IF count > 0 THEN Append(actions, Line(pass, count)) ELSE actions

NoReport ==
  [originalRows |-> 0, cleanedRows |-> 0, removedDuplicates |-> 0,
   handledMissingValues |-> 0, outliersTreated |-> 0, dataTypeCorrections |-> 0,
   cleaningActions |-> <<>>]

\* A slip: the rows counted after step 2 instead of on entry.
OriginalRowsAfterStep2(rows) == Len(RemoveDuplicateRows(rows))

\* const originalRows = data.length
OriginalRows(rows) == Len(rows)

\* The locals of cleanDataset before step 1.
StartCleaning(rows) ==
  [rows |-> rows, refs |-> [r \in DOMAIN rows |-> r], input |-> rows,
   originalRows |-> OriginalRows(rows), removedDuplicates |-> 0,
   handledMissingValues |-> 0, outliersTreated |-> 0, dataTypeCorrections |-> 0,
   actions |-> <<>>]

\* A filtering pass: the rows kept (the same objects), and its action line when
\* rows were dropped.
Filtered(st, mask, pass) ==
  [st EXCEPT !.rows = Keep(st.rows, mask),
             !.refs = Keep(st.refs, mask),
             !.actions = PushIf(@, Len(st.rows) - Len(Keep(st.rows, mask)), pass)]

PassEmptyRows(st) ==
  Filtered(st, HasValueMask(st.rows), "Removed completely empty rows")

Deduplicated(st, mask) ==
  [Filtered(st, mask, "Removed duplicate rows")
     EXCEPT !.removedDuplicates = Len(st.rows) - Len(Keep(st.rows, mask))]

PassDuplicateRows(st) == Deduplicated(st, FirstSeenMask(st.rows))

Imputed(st, cols, info, handled) ==
  [Store(st, MapSeq(st.refs, SpreadCopy),
         MapSeq(st.rows, LAMBDA row : ImputeRow(row, cols, info, 1)))
     EXCEPT  !.handledMissingValues = handled,
             !.actions = PushIf(@, handled,
                                "Filled missing values using statistical imputation")]

PassImpute(st, cols, info) == Imputed(st, cols, info, MissingCells(st.rows, cols))

Typed(st, cols, info, corrections) ==
  [Store(st, MapSeq(st.refs, SpreadCopy),
         MapSeq(st.rows, LAMBDA row : StandardizeRow(row, cols, info, 1)))
     EXCEPT  !.dataTypeCorrections = corrections,
             !.actions = PushIf(@, corrections, "Corrected data type inconsistencies")]

PassStandardize(st, cols, info) ==
  Typed(st, cols, info, CorrectedCells(st.rows, cols, info))

PassSparseRows(st, cols) ==
  Filtered(st, DenseMask(st.rows, cols), "Removed rows with >50% missing data")

\* The value cleanDataset returns.
Returned(st) ==
  [threw |-> FALSE,
   inputAfter |-> st.input,
   cleanedData |-> st.rows,
   refs |-> st.refs,
   cleaningReport |->
     [originalRows |-> st.originalRows,
      cleanedRows |-> Len(st.rows),
      removedDuplicates |-> st.removedDuplicates,
      handledMissingValues |-> st.handledMissingValues,
      outliersTreated |-> st.outliersTreated,
      dataTypeCorrections |-> st.dataTypeCorrections,
      cleaningActions |-> st.actions]]

Thrown ==
  [threw |-> TRUE, inputAfter |-> <<>>, cleanedData |-> <<>>, refs |-> <<>>,
   cleaningReport |-> NoReport]

\* Steps 4 to 7 with the column analysis of step 3.
CleanWith(st, cols, info) ==
  IF \E i \in DOMAIN cols : info[i].threw
  THEN [Thrown EXCEPT !.inputAfter = st.input]
  ELSE Returned(PassSparseRows(
         PassStandardize(CapOutliers(PassImpute(st, cols, info), cols, info, 1),
                         cols, info),
         cols))

\* Step 3 on the rows left by steps 1 and 2.
CleanProfiled(st, cols) == CleanWith(st, cols, AnalyzeColumnsForCleaning(st.rows, cols))

\* cleanDataset(rows, cols): threw, or the cleaned rows and the report.
CleanDataset(rows, cols) ==
  CleanProfiled(PassDuplicateRows(PassEmptyRows(StartCleaning(rows))), cols)

\* ----------------------------------------------------------- square roots

\* The largest r with r * r <= m, searched in lo..hi.
RECURSIVE IntSqrt(_, _, _)
IntSqrt(m, lo, hi) ==
  IF lo >= hi THEN lo
  ELSE LET mid == (lo + hi + 1) \div 2
       IN IF mid * mid <= m THEN IntSqrt(m, mid, hi) ELSE IntSqrt(m, lo, mid - 1)

IsSquare(m) == m >= 0 /\ IntSqrt(m, 0, m) * IntSqrt(m, 0, m) = m

\* sign * Math.sqrt(q) for a number q >= 0: a number when q is the square of a
\* rational, otherwise the irrational kept exactly as k = "sqrt", n/d = sign * q.
SignedRoot(sign, q) ==
  IF q.k # "num" THEN q
  ELSE IF q.n < 0 THEN NaN
  ELSE IF IsSquare(q.n) /\ IsSquare(q.d)
  THEN Rat(sign * IntSqrt(q.n, 0, q.n), IntSqrt(q.d, 0, q.d))
  ELSE [k |-> "sqrt", n |-> sign * q.n, d |-> q.d, s |-> ""]

\* x * x for a number or a kept root.
SquareOf(x) == IF x.k = "sqrt" THEN Rat(Abs(x.n), x.d) ELSE Mul(x, x)

\* Math.abs(x) > q and Math.abs(x) < q for a number or a kept root x, q >= 0.
AbsGt(x, q) == IF x.k = "nan" THEN FALSE ELSE Gt(SquareOf(x), Mul(q, q))
AbsLt(x, q) == IF x.k = "nan" THEN FALSE ELSE Lt(SquareOf(x), Mul(q, q))
IsPositive(x) == x.k \in {"num", "sqrt", "inf"} /\ x.n > 0

\* array.reduce((sum, v) => sum + v, 0)
RECURSIVE SumSeq(_)
SumSeq(seq) ==
  IF seq = <<>> THEN Num(0)
  ELSE Add(SumSeq(SubSeq(seq, 1, Len(seq) - 1)), seq[Len(seq)])

\* ----------------------------------------------------------- analyzeColumns

\* typeof v === 'number' && !isNaN(v)
IsNativeNumber(v) == v.k \in {"num", "inf"}

\* numericValues.length / nonNullValues.length > 0.8
ExceedsReportThreshold(numericCount, count) ==
  count > 0 /\ 10 * numericCount > 8 * count

\* The texts of the model that new Date(text) parses to a valid date.
DateTexts == {"2024-01-15", "Jan 5"}
\* The texts of the model longer than 8 characters.
LongTexts == {"2024-01-15", "-Infinity", "undefined"}

\* isDateString(value)
IsDateString(v) == v.k = "str" /\ v.s \in DateTexts /\ v.s \in LongTexts

AnalyzeColumn(rows, col) ==
  LET values == MapSeq(rows, LAMBDA row : Get(row, col))
      nonNullValues == SelectSeq(values, LAMBDA v : ~IsMissing(v))
      nullCount == Len(values) - Len(nonNullValues)
      numericValues == SelectSeq(nonNullValues, IsNativeNumber)
  IN [name |-> col,
      type |-> IF ExceedsReportThreshold(Len(numericValues), Len(nonNullValues))
               THEN "numeric"
               ELSE IF \E i \in DOMAIN nonNullValues : nonNullValues[i].k = "bool"
               THEN "boolean"
               ELSE IF \E i \in DOMAIN nonNullValues : IsDateString(nonNullValues[i])
               THEN "datetime"
               ELSE "categorical",
      uniqueValues |-> Cardinality(Range(nonNullValues)),
      nullCount |-> nullCount,
      nullPercentage |-> Mul(Div(Num(nullCount), Num(Len(values))), Num(100)),
      sampleValues |-> SubSeq(nonNullValues, 1,
                              IF Len(nonNullValues) < 5 THEN Len(nonNullValues) ELSE 5)]

AnalyzeColumns(rows, cols) == MapSeq(cols, LAMBDA col : AnalyzeColumn(rows, col))

\* ---------------------------------------------------- calculateNumericStats

\* values.reduce((sum, v) => sum + Math.pow(v - mean, p), 0) / values.length
CentralMoment(values, mean, p) ==
  Div(SumSeq(MapSeq(values,
        LAMBDA v : LET dv == Sub(v, mean)
                   IN IF p = 2 THEN Mul(dv, dv)
                      ELSE IF p = 3 THEN Mul(dv, Mul(dv, dv))
                      ELSE Mul(Mul(dv, dv), Mul(dv, dv)))),
      Num(Len(values)))

\* The mean of ((v - mean) / stdDev)^3: with stdDev = 0 every term is 0 / 0.
Skewness(values, mean, variance) ==
  IF variance.k # "num" THEN NaN
  ELSE IF variance.n = 0 THEN NaN
  ELSE LET m3 == CentralMoment(values, mean, 3)
       IN SignedRoot(Sign(m3),
                     Div(Mul(m3, m3), Mul(variance, Mul(variance, variance))))

\* The mean of ((v - mean) / stdDev)^4, minus 3.
Kurtosis(values, mean, variance) ==
  IF variance.k # "num" THEN NaN
  ELSE IF variance.n = 0 THEN NaN
  ELSE Sub(Div(CentralMoment(values, mean, 4), Mul(variance, variance)), Num(3))

\* The statistics of one numeric column; present is FALSE when the column holds
\* no number (no entry is written).
NumericStatsOf(rows, col) ==
  LET values == SortAsc(SelectSeq(MapSeq(rows, LAMBDA row : Get(row, col)),
                                   IsNativeNumber))
      len == Len(values)
      mean == Div(SumSeq(values), Num(len))
      variance == CentralMoment(values, mean, 2)
      entries == FrequencyEntries(MapSeq(values, StringOf))
      min == At(values, 0)
      max == At(values, len - 1)
      q1 == At(values, QuarterIndex(len))
      q3 == At(values, ThreeQuarterIndex(len))
  IN IF len = 0
     THEN [name |-> col, present |-> FALSE]
     ELSE [name |-> col, present |-> TRUE,
           mean |-> mean,
           median |-> At(values, HalfIndex(len)),
           mode |-> ToNumber(ReduceMode(entries[1], Tail(entries)).value),
           min |-> min, max |-> max,
           stdDev |-> SignedRoot(1, variance),
           variance |-> variance,
           range |-> Sub(max, min),
           q1 |-> q1, q3 |-> q3, iqr |-> Sub(q3, q1),
           skewness |-> Skewness(values, mean, variance),
           kurtosis |-> Kurtosis(values, mean, variance)]

ColumnsOfType(infos, type) == SelectSeq(infos, LAMBDA info : info.type = type)

CalculateNumericStats(rows, numericColumns) ==
  SelectSeq(MapSeq(numericColumns, LAMBDA info : NumericStatsOf(rows, info.name)),
            LAMBDA st : st.present)

\* ------------------------------------------------ calculateCategoricalStats

\* Insert e into a list sorted by descending count, after the entries of equal
\* count (Array.prototype.sort is stable).
RECURSIVE InsertByCount(_, _)
InsertByCount(sorted, e) ==
  IF sorted = <<>> THEN <<e>>
  ELSE IF e.count > sorted[1].count THEN <<e>> \o sorted
  ELSE <<sorted[1]>> \o InsertByCount(Tail(sorted), e)

\* entries.sort((a, b) => b.count - a.count)
RECURSIVE SortByCountDesc(_)
SortByCountDesc(seq) ==
  IF seq = <<>> THEN <<>>
  ELSE InsertByCount(SortByCountDesc(SubSeq(seq, 1, Len(seq) - 1)), seq[Len(seq)])

\* x || '' on a string
OrEmpty(x) == IF x.k = "undef" THEN Str("") ELSE x

CategoricalStatsOf(rows, col) ==
  LET values == SelectSeq(MapSeq(rows, LAMBDA row : Get(row, col)),
                          LAMBDA v : ~IsMissing(v))
      entries == FrequencyEntries(MapSeq(values, StringOf))
      sortedCategories ==
        SortByCountDesc(MapSeq(entries, LAMBDA e :
          [value |-> e.value, count |-> e.count,
           percentage |-> Mul(Div(Num(e.count), Num(Len(values))), Num(100))]))
  IN IF Len(values) = 0
     THEN [name |-> col, present |-> FALSE]
     ELSE [name |-> col, present |-> TRUE,
           topCategories |-> sortedCategories,
           uniqueCount |-> Len(entries),
           mostFrequent |-> OrEmpty(sortedCategories[1].value),
           leastFrequent |-> OrEmpty(sortedCategories[Len(sortedCategories)].value)]

CalculateCategoricalStats(rows, categoricalColumns) ==
  SelectSeq(MapSeq(categoricalColumns, LAMBDA info : CategoricalStatsOf(rows, info.name)),
            LAMBDA st : st.present)

\* ------------------------------------------------------ pearsonCorrelation

Min(a, b) == IF a < b THEN a ELSE b

\* A slip: the square root of the denominator left out.
CoefficientNoRoot(numerator, product) ==
  IF product.k # "num" \/ numerator.k # "num" THEN NaN
  ELSE IF product.n = 0 THEN Num(0)
  ELSE Div(numerator, product)

\* denominator === 0 ? 0 : numerator / denominator, for denominator =
\* Math.sqrt(product): written sign(numerator) * sqrt(numerator^2 / product).
Coefficient(numerator, product) ==
  IF product.k # "num" \/ numerator.k # "num" THEN NaN
  ELSE IF product.n = 0 THEN Num(0)
  ELSE SignedRoot(Sign(numerator), Div(Mul(numerator, numerator), product))

\* A slip: the second sum of squares taken over x again.
PearsonCorrelationSquaredX(x, y) ==
  LET len == Min(Len(x), Len(y))
      xs == SubSeq(x, 1, len)
      ys == SubSeq(y, 1, len)
      meanX == Div(SumSeq(xs), Num(len))
      meanY == Div(SumSeq(ys), Num(len))
      numerator == SumSeq([i \in 1..len |-> Mul(Sub(xs[i], meanX), Sub(ys[i], meanY))])
      sumSquaredX == SumSeq([i \in 1..len |-> Mul(Sub(xs[i], meanX), Sub(xs[i], meanX))])
  IN IF len < 2 THEN Num(0) ELSE Coefficient(numerator, Mul(sumSquaredX, sumSquaredX))

\* pearsonCorrelation(x, y)
PearsonCorrelation(x, y) ==
  LET len == Min(Len(x), Len(y))
      xs == SubSeq(x, 1, len)
      ys == SubSeq(y, 1, len)
      meanX == Div(SumSeq(xs), Num(len))
      meanY == Div(SumSeq(ys), Num(len))
      numerator == SumSeq([i \in 1..len |-> Mul(Sub(xs[i], meanX), Sub(ys[i], meanY))])
      sumSquaredX == SumSeq([i \in 1..len |-> Mul(Sub(xs[i], meanX), Sub(xs[i], meanX))])
      sumSquaredY == SumSeq([i \in 1..len |-> Mul(Sub(ys[i], meanY), Sub(ys[i], meanY))])
      product == Mul(sumSquaredX, sumSquaredY)
  IN IF len < 2 THEN Num(0) ELSE Coefficient(numerator, product)

\* ---------------------------------------------------- calculateCorrelations

\* dataset.data.map(row => row[col]).filter(v => typeof v === 'number')
NumbersOf(rows, col) ==
  SelectSeq(MapSeq(rows, LAMBDA row : Get(row, col)), TypeofNumber)

\* The (x[i], y[i]) that the loop of pearsonCorrelation multiplies for the
\* columns col1 and col2: none when the pair is skipped, otherwise i runs over
\* the first Math.min(x.length, y.length) entries of values1 and values2.
PairsEntering(rows, col1, col2) ==
  IF Len(NumbersOf(rows, col1)) < 2 \/ Len(NumbersOf(rows, col2)) < 2 THEN <<>>
  ELSE [i \in 1..Min(Len(NumbersOf(rows, col1)), Len(NumbersOf(rows, col2))) |->
          <<NumbersOf(rows, col1)[i], NumbersOf(rows, col2)[i]>>]

Strength(coefficient) ==
  IF AbsLt(coefficient, Rat(3, 10)) THEN "weak"
  ELSE IF AbsLt(coefficient, Rat(7, 10)) THEN "moderate"
  ELSE "strong"

\* The entry pushed for the pair (i, j) of numeric columns; skipped marks continue.
CorrelationOf(rows, numericColumns, i, j) ==
  LET values1 == NumbersOf(rows, numericColumns[i].name)
      values2 == NumbersOf(rows, numericColumns[j].name)
      coefficient == PearsonCorrelation(values1, values2)
  IN [column1 |-> numericColumns[i].name,
      column2 |-> numericColumns[j].name,
      skipped |-> Len(values1) < 2 \/ Len(values2) < 2,
      coefficient |-> coefficient,
      strength |-> Strength(coefficient),
      direction |-> IF IsPositive(coefficient) THEN "positive" ELSE "negative"]

\* The pairs (i, j), i < j, in the order of the two nested loops.
RECURSIVE PairsFrom(_, _, _)
PairsFrom(i, j, len) ==
  IF i > len THEN <<>>
  ELSE IF j > len THEN PairsFrom(i + 1, i + 2, len)
  ELSE <<(<<i, j>>)>> \o PairsFrom(i, j + 1, len)

\* A slip: the final filter on |coefficient| > 0.1 left out.
CalculateCorrelationsUnfiltered(rows, numericColumns) ==
  LET pairs == PairsFrom(1, 2, Len(numericColumns))
      all == MapSeq(pairs, LAMBDA p : CorrelationOf(rows, numericColumns, p[1], p[2]))
  IN SelectSeq(all, LAMBDA c : ~c.skipped)

CalculateCorrelations(rows, numericColumns) ==
  LET pairs == PairsFrom(1, 2, Len(numericColumns))
      all == MapSeq(pairs, LAMBDA p : CorrelationOf(rows, numericColumns, p[1], p[2]))
  IN SelectSeq(all, LAMBDA c : ~c.skipped /\ AbsGt(c.coefficient, Rat(1, 10)))

\* ---------------------------------------------------- calculateQualityScore

\* A slip: the score of a column taken from its nullCount.
CalculateQualityScoreOfCounts(infos) ==
  Div(SumSeq(MapSeq(infos, LAMBDA info : Sub(Num(100), Num(info.nullCount)))),
      Num(Len(infos)))

\* scores.reduce((sum, score) => sum + score, 0) / scores.length
CalculateQualityScore(infos) ==
  Div(SumSeq(MapSeq(infos, LAMBDA info : Sub(Num(100), info.nullPercentage))),
      Num(Len(infos)))

\* -------------------------------------------------------- generateInsights

\* The column names of the model that are array indices ("1", "2", ...), with
\* their numeric value: Object.entries lists such keys first, ascending.
IndexNames == {"1", "2"}
IndexOfName(name) == IF name = "1" THEN 1 ELSE 2

\* Insert st into a list of statistics with index names in ascending order.
RECURSIVE InsertByIndexName(_, _)
InsertByIndexName(sorted, st) ==
  IF sorted = <<>> THEN <<st>>
  ELSE IF IndexOfName(st.name) < IndexOfName(sorted[1].name) THEN <<st>> \o sorted
  ELSE <<sorted[1]>> \o InsertByIndexName(Tail(sorted), st)

RECURSIVE SortByIndexName(_)
SortByIndexName(seq) ==
  IF seq = <<>> THEN <<>>
  ELSE InsertByIndexName(SortByIndexName(SubSeq(seq, 1, Len(seq) - 1)), seq[Len(seq)])

\* Object.entries(numericStats): the statistics in the enumeration order of
\* their column names (written in numeric column order).
StatsEntries(stats) ==
  SortByIndexName(SelectSeq(stats, LAMBDA st : st.name \in IndexNames))
    \o SelectSeq(stats, LAMBDA st : st.name \notin IndexNames)

Insight(type, severity, about, variant) ==
  [type |-> type, severity |-> severity, about |-> about, variant |-> variant]

\* col.nullPercentage > 20: severity high above 50, medium otherwise
MissingDataInsights(infos) ==
  MapSeq(SelectSeq(infos, LAMBDA info : Gt(info.nullPercentage, Num(20))),
         LAMBDA info : Insight("quality",
                               IF Gt(info.nullPercentage, Num(50)) THEN "high" ELSE "medium",
                               <<info.name>>, ""))

\* correlations.filter(corr => Math.abs(corr.coefficient) > 0.7)
CorrelationInsights(correlations) ==
  MapSeq(SelectSeq(correlations, LAMBDA c : AbsGt(c.coefficient, Rat(7, 10))),
         LAMBDA c : Insight("correlation", "medium", <<c.column1, c.column2>>, c.direction))

\* value - mean > 3 * stdDev, for stdDev = Math.sqrt(variance); a NaN on
\* either side compares false.
Beyond3StdDev(value, mean, variance) ==
  /\ value.k = "num" /\ mean.k = "num" /\ variance.k = "num"
  /\ Gt(Sub(value, mean), Num(0))
  /\ Gt(Mul(Sub(value, mean), Sub(value, mean)), Mul(Num(9), variance))

\* stats.max > stats.mean + outlierThreshold || stats.min < stats.mean - outlierThreshold
HasOutlier(st) ==
  \/ Beyond3StdDev(st.max, st.mean, st.variance)
  \/ Beyond3StdDev(Neg(st.min), Neg(st.mean), st.variance)

OutlierInsights(entries) ==
  MapSeq(SelectSeq(entries, HasOutlier),
         LAMBDA st : Insight("anomaly", "low", <<st.name>>, ""))

\* Math.abs(stats.skewness) > 1, titled right or left by the sign
SkewnessInsights(entries) ==
  MapSeq(SelectSeq(entries, LAMBDA st : AbsGt(st.skewness, Num(1))),
         LAMBDA st : Insight("distribution", "low", <<st.name>>,
                             IF IsPositive(st.skewness) THEN "right" ELSE "left"))

\* col.type === 'categorical' && col.uniqueValues < 5 && col.uniqueValues > 1
LowCardinalityInsights(infos) ==
  MapSeq(SelectSeq(infos, LAMBDA info : /\ info.type = "categorical"
                                        /\ info.uniqueValues < 5
                                        /\ info.uniqueValues > 1),
         LAMBDA info : Insight("recommendation", "low", <<info.name>>, ""))

\* severityOrder = { high: 3, medium: 2, low: 1 }
SeverityOrder(severity) ==
  IF severity = "high" THEN 3 ELSE IF severity = "medium" THEN 2 ELSE 1

\* Insert e into a list sorted by descending severity, after the entries of
\* equal severity (Array.prototype.sort is stable).
RECURSIVE InsertBySeverity(_, _)
InsertBySeverity(sorted, e) ==
  IF sorted = <<>> THEN <<e>>
  ELSE IF SeverityOrder(e.severity) > SeverityOrder(sorted[1].severity)
  THEN <<e>> \o sorted
  ELSE <<sorted[1]>> \o InsertBySeverity(Tail(sorted), e)

\* A slip: an insertion that puts an entry before the entries of equal
\* severity, as a sort that is not stable may.
RECURSIVE InsertBeforeEqualSeverity(_, _)
InsertBeforeEqualSeverity(sorted, e) ==
  IF sorted = <<>> THEN <<e>>
  ELSE IF SeverityOrder(e.severity) >= SeverityOrder(sorted[1].severity)
  THEN <<e>> \o sorted
  ELSE <<sorted[1]>> \o InsertBeforeEqualSeverity(Tail(sorted), e)

RECURSIVE SortBySeverityUnstable(_)
SortBySeverityUnstable(seq) ==
  IF seq = <<>> THEN <<>>
  ELSE InsertBeforeEqualSeverity(SortBySeverityUnstable(SubSeq(seq, 1, Len(seq) - 1)),
                                 seq[Len(seq)])

\* insights.sort((a, b) => severityOrder[b.severity] - severityOrder[a.severity])
RECURSIVE SortBySeverity(_)
SortBySeverity(seq) ==
  IF seq = <<>> THEN <<>>
  ELSE InsertBySeverity(SortBySeverity(SubSeq(seq, 1, Len(seq) - 1)), seq[Len(seq)])

\* The insights in the order they are pushed.
EmittedInsights(infos, entries, correlations) ==
  MissingDataInsights(infos) \o CorrelationInsights(correlations)
    \o OutlierInsights(entries) \o SkewnessInsights(entries)
    \o LowCardinalityInsights(infos)

GenerateInsights(infos, numericStats, correlations) ==
  SortBySeverity(EmittedInsights(infos, StatsEntries(numericStats), correlations))

\* -------------------------------------------------------- findDuplicateRows

\* The number of rows whose JSON text was seen in an earlier row.
FindDuplicateRows(rows) == Len(rows) - Len(RemoveDuplicateRows(rows))

\* ------------------------------------------------- generateRecommendations

LargeDatasetRows == 10000

\* array.slice(0, count)
Slice(seq, count) == SubSeq(seq, 1, Min(Len(seq), count))

Recommendation(rule, names, count) == [rule |-> rule, names |-> names, count |-> count]

\* One list per rule: the string it pushes, or nothing.
HighMissingRecommendation(infos) ==
  LET highMissingDataCols == SelectSeq(infos, LAMBDA info : Gt(info.nullPercentage, Num(20)))
  IN IF Len(highMissingDataCols) > 0
     THEN <<Recommendation("highMissingData",
                           MapSeq(highMissingDataCols, LAMBDA info : info.name), 0)>>
     ELSE <<>>

\* A slip: every low-cardinality column named, not the first three.
LowCardinalityRecommendationAll(infos, rowCount) ==
  LET lowCardinalityCols ==
        SelectSeq(infos, LAMBDA info : /\ 10 * info.uniqueValues < rowCount
                                       /\ info.uniqueValues > 1)
  IN IF Len(lowCardinalityCols) > 0
     THEN <<Recommendation("lowCardinality",
                           MapSeq(lowCardinalityCols, LAMBDA info : info.name), 0)>>
     ELSE <<>>

\* col.uniqueValues < 0.1 * dataset.rowCount && col.uniqueValues > 1
LowCardinalityRecommendation(infos, rowCount) ==
  LET lowCardinalityCols ==
        SelectSeq(infos, LAMBDA info : /\ 10 * info.uniqueValues < rowCount
                                       /\ info.uniqueValues > 1)
  IN IF Len(lowCardinalityCols) > 0
     THEN <<Recommendation("lowCardinality",
                           MapSeq(Slice(lowCardinalityCols, 3), LAMBDA info : info.name), 0)>>
     ELSE <<>>

NumericColumnsRecommendation(infos) ==
  IF Len(SelectSeq(infos, LAMBDA info : info.type = "numeric")) > 1
  THEN <<Recommendation("correlationAnalysis", <<>>, 0)>>
  ELSE <<>>

DuplicateRowsRecommendation(duplicateRows) ==
  IF duplicateRows > 0
  THEN <<Recommendation("removeDuplicates", <<>>, duplicateRows)>>
  ELSE <<>>

LargeDatasetRecommendation(rowCount) ==
  IF rowCount > LargeDatasetRows
  THEN <<Recommendation("largeDataset", <<>>, 0)>>
  ELSE <<>>

OutlierRecommendation(insights) ==
  IF Len(SelectSeq(insights, LAMBDA i : i.type = "anomaly")) > 0
  THEN <<Recommendation("outliers", <<>>, 0)>>
  ELSE <<>>

GenerateRecommendations(rows, rowCount, infos, insights) ==
  Slice(HighMissingRecommendation(infos)
          \o LowCardinalityRecommendation(infos, rowCount)
          \o NumericColumnsRecommendation(infos)
          \o DuplicateRowsRecommendation(FindDuplicateRows(rows))
          \o LargeDatasetRecommendation(rowCount)
          \o OutlierRecommendation(insights), 6)

\* ------------------------------------------------------------- analyzeData

NoSummary ==
  [totalRows |-> 0, totalColumns |-> 0, numericColumns |-> 0,
   categoricalColumns |-> 0, missingValuePercentage |-> Undef, duplicateRows |-> 0]

NoAnalysis ==
  [summary |-> NoSummary, columns |-> <<>>, numericStats |-> <<>>,
   categoricalStats |-> <<>>, correlations |-> <<>>, insights |-> <<>>,
   qualityScore |-> Undef, recommendations |-> <<>>]

\* The summary of the result; rowCount is dataset.rowCount.
Summary(rows, rowCount, infos) ==
  [totalRows |-> rowCount,
   totalColumns |-> Len(infos),
   numericColumns |-> Len(ColumnsOfType(infos, "numeric")),
   categoricalColumns |-> Len(ColumnsOfType(infos, "categorical")),
   missingValuePercentage |->
     Div(SumSeq(MapSeq(infos, LAMBDA info : info.nullPercentage)), Num(Len(infos))),
   duplicateRows |-> FindDuplicateRows(rows)]

\* The result, once the insights are known.
AnalysisResult(rows, rowCount, infos, numericStats, correlations, insights) ==
  [summary |-> Summary(rows, rowCount, infos),
   columns |-> infos,
   numericStats |-> numericStats,
   categoricalStats |-> CalculateCategoricalStats(rows, ColumnsOfType(infos, "categorical")),
   correlations |-> correlations,
   insights |-> insights,
   qualityScore |-> CalculateQualityScore(infos),
   recommendations |-> GenerateRecommendations(rows, rowCount, infos, insights)]

AnalyzeWithStats(rows, rowCount, infos, numericStats, correlations) ==
  AnalysisResult(rows, rowCount, infos, numericStats, correlations,
                 GenerateInsights(infos, numericStats, correlations))

AnalyzeWithColumns(rows, rowCount, infos) ==
  AnalyzeWithStats(rows, rowCount, infos,
                   CalculateNumericStats(rows, ColumnsOfType(infos, "numeric")),
                   CalculateCorrelations(rows, ColumnsOfType(infos, "numeric")))

\* analyzeData(dataset) for a dataset with rowCount = data.length, as
\* parseDataset builds it.
AnalyzeData(rows, cols) == AnalyzeWithColumns(rows, Len(rows), AnalyzeColumns(rows, cols))

\* ------------------------------------------------------------ parseDataset

\* The value parseDataset stores for a sheet cell: null for a missing cell, the
\* number for text that reads as one, true/false for those words, the trimmed
\* text otherwise.
CellValue(value) ==
  IF IsMissing(value) THEN Null
  ELSE IF ToNumber(Trim(StringOf(value))).k # "nan" /\ Trim(StringOf(value)) # Str("")
       THEN ToNumber(Trim(StringOf(value)))
  ELSE IF ToLowerCase(Trim(StringOf(value))) = Str("true") THEN Bool(TRUE)
  ELSE IF ToLowerCase(Trim(StringOf(value))) = Str("false") THEN Bool(FALSE)
  ELSE Trim(StringOf(value))

\* rawData[0].map(header => String(header).trim())
Headers(sheet) == [i \in DOMAIN sheet[1] |-> Trim(StringOf(sheet[1][i])).s]

\* row[index]: undefined past the end of a short row.
CellAt(row, index) == IF index \in DOMAIN row THEN row[index] ELSE Undef

\* The object built from one sheet row: headers.forEach over the first count
\* headers (a repeated header overwrites its cell).
RECURSIVE SheetObject(_, _, _)
SheetObject(row, headers, count) ==
  IF count = 0 THEN <<>>
  ELSE SetField(SheetObject(row, headers, count - 1), headers[count],
                CellValue(CellAt(row, count)))

\* Object.values(row).some(val => val !== null && val !== '')
HasContent(obj) == \E i \in DOMAIN obj : obj[i].val # Null /\ obj[i].val # Str("")

\* The rows below the header row as objects, those without content dropped.
SheetData(sheet, headers) ==
  SelectSeq([r \in 1..(Len(sheet) - 1) |->
               SheetObject(sheet[r + 1], headers, Len(headers))],
            HasContent)

\* ------------------------------------------------------------------ inputs

\* The row with the cells f[i] under the keys cols[i], in column order; an
\* undefined cell is an absent key.
MakeRow(cols, f) ==
  SelectSeq([i \in DOMAIN cols |-> [key |-> cols[i], val |-> f[i]]],
            LAMBDA p : p.val.k # "undef")

SeqsUpTo(S, maxLen) == UNION {[1..len -> S] : len \in 0..maxLen}

\* A sheet as sheet_to_json returns it: the header row, then the rows.
Sheet(cols, rows) == <<[i \in DOMAIN cols |-> Str(cols[i])]>> \o rows

MaxRows == 2
MaxObjectRows == 1
MaxLongRows == 3
MaxCapExtra == 2
MaxLinearRows == 3
\* analyzeData is applied to cleaned sheets of at most this many rows: the
\* exact fourth moments of longer columns leave the 32-bit integer range.
MaxAnalysisRows == 6

GeneralColumnLists == {<<>>, <<"age">>, <<"age", "city">>}

\* Wide sheets: few rows, every mix of blank cells, numbers, TRUE, white space
\* and text (cells are formatted text or null).
AgeCells == {Null, NumStr(Num(2)), NumStr(Num(3)), Str("TRUE"), Str(" ")}
CityCells == {Null, Str("NY"), Str("yes")}
CellsOf(col) == IF col = "age" THEN AgeCells ELSE CityCells
RowsOver(cols) ==
  {f \in [DOMAIN cols -> AgeCells \cup CityCells] :
     \A i \in DOMAIN cols : f[i] \in CellsOf(cols[i])}

\* Long sheets: the rows of the worked example, a second LA row and a row with
\* text in the age column.
ExampleRows ==
  {<<NumStr(Num(25)), Str("NY")>>, <<NumStr(Num(30)), Str("NY")>>,
   <<Null, Str("LA")>>}
LongRows == ExampleRows \cup {<<NumStr(Num(30)), Str("LA")>>, <<Str("LA"), Str("LA")>>}
\* The sheet of the worked example: its second row comes again as the fourth.
ExampleSheet ==
  <<(<<NumStr(Num(25)), Str("NY")>>), (<<NumStr(Num(30)), Str("NY")>>),
    (<<Null, Str("LA")>>), (<<NumStr(Num(30)), Str("NY")>>)>>

\* Sheets with a column long enough to be capped: ages 11..20, then a few
\* more cells.
CapBase == [i \in 1..OutlierMinValues |-> <<NumStr(Num(10 + i))>>]
CapExtraRows == {<<NumStr(Num(100))>>, <<Str("TRUE")>>, <<NumStr(Num(-50))>>, <<Null>>}

\* Datasets handed to analyzeData directly: objects with absent keys, null,
\* numbers, numeric strings, booleans, '' and text.
ObjectAgeCells == {Undef, Null, Num(2), Num(3), NumStr(Num(3)), Bool(TRUE)}
ObjectCityCells == {Str(""), Str("NY"), Str("yes")}
ObjectCellsOf(col) == IF col = "age" THEN ObjectAgeCells ELSE ObjectCityCells
ObjectsOver(cols) ==
  {MakeRow(cols, f) : f \in {g \in [DOMAIN cols -> ObjectAgeCells \cup ObjectCityCells] :
                               \A i \in DOMAIN cols : g[i] \in ObjectCellsOf(cols[i])}}

\* Two columns of numbers: the points of y = 2x + 3 and of y = 12 - 3x for
\* x = 1, 2, 3, a point off both lines, and a row with a null cell.
LinearRows ==
  {MakeRow(<<"x", "y">>, <<Num(p[1]), Num(p[2])>>) :
     p \in {<<1, 5>>, <<2, 7>>, <<3, 9>>, <<1, 9>>, <<2, 6>>, <<3, 3>>, <<2, 5>>}}
  \cup {MakeRow(<<"x", "y">>, <<Num(1), Null>>)}

\* Sheets with two columns long enough to be capped: (11, 11) .. (20, 20), then
\* rows with an outlier in one column or in both, or with a blank cell.
CapPairBase ==
  [i \in 1..OutlierMinValues |-> <<NumStr(Num(10 + i)), NumStr(Num(10 + i))>>]
CapPairExtraRows ==
  {<<NumStr(Num(100)), NumStr(Num(100))>>, <<NumStr(Num(100)), NumStr(Num(15))>>,
   <<NumStr(Num(15)), NumStr(Num(-50))>>, <<Null, NumStr(Num(16))>>}

\* Sheets with the text Infinity in a cell, next to a blank and a number.
InfinityRows ==
  {<<Str("Infinity"), Str("NY")>>, <<Null, Str("NY")>>, <<NumStr(Num(2)), Str("NY")>>}

\* Sheets with a column long enough to be capped whose cells are the text
\* Infinity: (Infinity, 1) .. (Infinity, 11), then a few more rows.
InfiniteBase ==
  [i \in 1..(OutlierMinValues + 1) |-> <<Str("Infinity"), NumStr(Num(i))>>]
InfiniteExtraRows ==
  {<<Null, NumStr(Num(12))>>, <<NumStr(Num(5)), NumStr(Num(13))>>}

\* Tall datasets, TallRows rows over the columns x, y, g, h: x is 0 except for
\* a last cell of TallRows or 0; y repeats x below yNulls null cells, its last
\* cell being the number of its values; g is a except for its last cell; h is
\* c, with d in the row before the last one, below hNulls null cells.
MaxTallRows == 21
TallColumns == <<"x", "y", "g", "h">>
TallRow(i, spike, yNulls, hNulls, gLast) ==
  MakeRow(TallColumns,
    <<Num(IF i = MaxTallRows /\ spike THEN MaxTallRows ELSE 0),
      IF i <= yNulls THEN Null
      ELSE Num(IF i = MaxTallRows /\ spike THEN MaxTallRows - yNulls ELSE 0),
      Str(IF i = MaxTallRows THEN gLast ELSE "a"),
      IF i <= hNulls THEN Null ELSE Str(IF i = MaxTallRows - 1 THEN "d" ELSE "c")>>)
TallDatasets ==
  {[i \in 1..MaxTallRows |-> TallRow(i, spike, yNulls, hNulls, gLast)] :
     spike \in BOOLEAN, yNulls \in {0, 14}, hNulls \in {0, 5, 11}, gLast \in {"a", "b"}}

\* Sheets whose headers are the numbers 2 and 1, in that order: three rows,
\* then at most one more.
YearBase ==
  <<(<<NumStr(Num(0)), NumStr(Num(0))>>), (<<NumStr(Num(0)), NumStr(Num(1))>>),
    (<<NumStr(Num(1)), NumStr(Num(0))>>)>>
YearExtraRows ==
  {<<NumStr(Num(9)), NumStr(Num(9))>>, <<NumStr(Num(9)), NumStr(Num(0))>>,
   <<NumStr(Num(1)), NumStr(Num(1))>>}

\* Sheets of three columns: rows that hold a single cell, and the full row.
TripleCells == <<{Null, NumStr(Num(1))}, {Null, Str("NY")}, {Null, Str("yes")}>>
TripleRows == {f \in [1..3 -> {Null, NumStr(Num(1)), Str("NY"), Str("yes")}] :
                 /\ \A i \in 1..3 : f[i] \in TripleCells[i]
                 /\ Cardinality({i \in 1..3 : f[i] # Null}) \in {1, 3}}

SheetInputs ==
  \/ rawData = <<>>
  \/ \E rows \in SeqsUpTo(TripleRows, MaxRows) : rawData = Sheet(<<"a", "b", "c">>, rows)
  \/ \E extra \in {<<>>} \cup {<<row>> : row \in YearExtraRows} :
       rawData = Sheet(<<"2", "1">>, YearBase \o extra)
  \/ \E rows \in SeqsUpTo(InfinityRows, MaxRows) : rawData = Sheet(<<"age", "city">>, rows)
  \/ \E extra \in SeqsUpTo(InfiniteExtraRows, MaxCapExtra) :
       rawData = Sheet(<<"x", "y">>, InfiniteBase \o extra)
  \/ \E extra \in SeqsUpTo(CapPairExtraRows, MaxCapExtra) :
       rawData = Sheet(<<"x", "y">>, CapPairBase \o extra)
  \/ \E cols \in GeneralColumnLists :
       \E rows \in SeqsUpTo(RowsOver(cols), MaxRows) : rawData = Sheet(cols, rows)
  \/ \E rows \in SeqsUpTo(LongRows, MaxLongRows) \cup {ExampleSheet} :
       rawData = Sheet(<<"age", "city">>, rows)
  \/ \E extra \in SeqsUpTo(CapExtraRows, MaxCapExtra) :
       rawData = Sheet(<<"age">>, CapBase \o extra)

DatasetInputs ==
  \/ columns \in GeneralColumnLists /\ data \in SeqsUpTo(ObjectsOver(columns), MaxObjectRows)
  \/ columns = <<"x", "y">> /\ data \in SeqsUpTo(LinearRows, MaxLinearRows)
  \/ columns = TallColumns /\ data \in TallDatasets

\* ----------------------------------------------------------- state machine

\* A Dataset state that is null.
NoDataset ==
  [isNull |-> TRUE, columns |-> <<>>, data |-> <<>>, rowCount |-> 0,
   cleaningReport |-> NoReport]

\* The state of App on mount: dataset and analysis null, loading false, error
\* null ('' stands for null).
AppStart ==
  [dataset |-> NoDataset, analysis |-> NoAnalysis, loading |-> FALSE, error |-> ""]

\* No file is being read.
NoFile == [ext |-> "", valid |-> TRUE, elements |-> <<>>, sheet |-> <<>>]

\* Either a workbook has been read (its first sheet is rawData) or a Dataset
\* value is at hand for analyzeData.
Init ==
  /\ \/ origin = "xlsx" /\ SheetInputs /\ columns = <<>> /\ data = <<>>
     \/ origin = "dataset" /\ rawData = <<>> /\ DatasetInputs
  /\ cleanStatus = "none"
  /\ cleanedData = <<>>
  /\ cleanedRefs = <<>>
  /\ cleaningReport = NoReport
  /\ recleanStatus = "none"
  /\ recleanedData = <<>>
  /\ recleanedRefs = <<>>
  /\ recleanReport = NoReport
  /\ analysisOf = "none"
  /\ analysis = NoAnalysis
  /\ app = AppStart
  /\ file = NoFile

StatusOf(result) == IF result.threw THEN "threw" ELSE "returned"

\* cleanDataset has been called (it returned or it threw).
CleanCalled == cleanStatus \in {"returned", "threw"}

\* parseDataset, spreadsheet path: an empty sheet is rejected; otherwise the
\* rows become objects under the headers and cleanDataset(data, headers) runs.
\* data is the array handed to cleanDataset, as it is after the call.
Clean ==
  /\ origin = "xlsx"
  /\ cleanStatus = "none"
  /\ IF rawData = <<>>
     THEN /\ cleanStatus' = "empty"
          /\ UNCHANGED <<columns, data, cleanedData, cleanedRefs, cleaningReport>>
     ELSE /\ columns' = Headers(rawData)
          /\ LET result == CleanDataset(SheetData(rawData, Headers(rawData)),
                                        Headers(rawData))
             IN /\ cleanStatus' = StatusOf(result)
                /\ data' = result.inputAfter
                /\ cleanedData' = result.cleanedData
                /\ cleanedRefs' = result.refs
                /\ cleaningReport' = result.cleaningReport
  /\ UNCHANGED <<origin, rawData, recleanStatus, recleanedData, recleanedRefs,
                 recleanReport, analysisOf, analysis, app, file>>

\* cleanDataset applied to the rows a first run returned, same column list.
ReClean ==
  /\ cleanStatus = "returned"
  /\ recleanStatus = "none"
  /\ analysisOf = "none"
  /\ LET result == CleanDataset(cleanedData, columns)
     IN /\ recleanStatus' = StatusOf(result)
        /\ cleanedData' = result.inputAfter
        /\ recleanedData' = result.cleanedData
        /\ recleanedRefs' = result.refs
        /\ recleanReport' = result.cleaningReport
  /\ UNCHANGED <<origin, rawData, columns, data, cleanStatus, cleanedRefs,
                 cleaningReport, analysisOf, analysis, app, file>>

\* analyzeData on a Dataset as given (the JSON path of parseDataset hands the
\* parsed rows over without cleaning them).
AnalyzeRaw ==
  /\ origin = "dataset"
  /\ analysisOf = "none"
  /\ analysisOf' = "raw"
  /\ analysis' = AnalyzeData(data, columns)
  /\ UNCHANGED <<origin, rawData, columns, data, cleanStatus, cleanedData,
                 cleanedRefs, cleaningReport, recleanStatus, recleanedData,
                 recleanedRefs, recleanReport, app, file>>

\* handleFileUpload, spreadsheet path: analyzeData on the cleaned rows.
AnalyzeCleaned ==
  /\ cleanStatus = "returned"
  /\ recleanStatus = "none"
  /\ analysisOf = "none"
  /\ Len(cleanedData) <= MaxAnalysisRows
  /\ analysisOf' = "cleaned"
  /\ analysis' = AnalyzeData(cleanedData, columns)
  /\ UNCHANGED <<origin, rawData, columns, data, cleanStatus, cleanedData,
                 cleanedRefs, cleaningReport, recleanStatus, recleanedData,
                 recleanedRefs, recleanReport, app, file>>

Next == Clean \/ ReClean \/ AnalyzeRaw \/ AnalyzeCleaned

Spec == Init /\ [][Next]_vars

\* ----------------------------------------------------------------- App

\* The files a user hands to handleFileUpload: JSON text that does not parse,
\* JSON arrays of objects and nulls (a lone object is the array of that
\* object), first sheets of workbooks, and a file of another extension.
MaxJsonElements == 3
JsonNull == [isNull |-> TRUE, row |-> <<>>]
JsonObject(row) == [isNull |-> FALSE, row |-> row]
JsonObjects ==
  {MakeRow(<<"age", "city">>, f) :
     f \in {<<Num(2), Str("NY")>>, <<Num(3), Str("yes")>>, <<Null, Str("NY")>>,
            <<Undef, Str("NY")>>}}
JsonElements == {JsonNull} \cup {JsonObject(row) : row \in JsonObjects}
JsonFile(elements) ==
  [ext |-> "json", valid |-> TRUE, elements |-> elements, sheet |-> <<>>]
InvalidJsonFile == [ext |-> "json", valid |-> FALSE, elements |-> <<>>, sheet |-> <<>>]
SheetFile(sheet) == [ext |-> "xlsx", valid |-> TRUE, elements |-> <<>>, sheet |-> sheet]
TextFile == [ext |-> "txt", valid |-> TRUE, elements |-> <<>>, sheet |-> <<>>]
UploadSheets ==
  {<<>>} \cup {Sheet(<<"a", "b", "c">>, rows) : rows \in SeqsUpTo(TripleRows, 1)}
UploadFiles ==
  {InvalidJsonFile, TextFile}
  \cup {JsonFile(elements) : elements \in SeqsUpTo(JsonElements, MaxJsonElements)}
  \cup {SheetFile(sheet) : sheet \in UploadSheets}

\* Object.keys of a row.
ObjectKeys(row) == [i \in DOMAIN row |-> row[i].key]

\* The promise of parseDataset, settled.
Rejected(message) == [rejected |-> TRUE, message |-> message, dataset |-> NoDataset]
Resolved(cols, elements, report) ==
  [rejected |-> FALSE, message |-> "",
   dataset |-> [isNull |-> FALSE, columns |-> cols, data |-> elements,
                rowCount |-> Len(elements), cleaningReport |-> report]]

\* parseDataset, '.json': JSON.parse or Object.keys(data[0]) of a null first
\* element throws, and the catch rejects; the rows are handed on as parsed.
ParseJson(f) ==
  IF ~f.valid \/ (f.elements # <<>> /\ f.elements[1].isNull)
  THEN Rejected("Invalid JSON format")
  ELSE Resolved(IF f.elements # <<>> THEN ObjectKeys(f.elements[1].row) ELSE <<>>,
                f.elements, NoReport)

\* parseDataset, '.xlsx' / '.xls', once the rows are cleaned.
ResolveCleaned(headers, result) ==
  IF result.threw
  THEN Rejected("Failed to parse Excel file")
  ELSE Resolved(headers, [i \in DOMAIN result.cleanedData |->
                            JsonObject(result.cleanedData[i])],
                result.cleaningReport)

\* parseDataset, '.xlsx' / '.xls'.
ParseExcel(f) ==
  IF f.sheet = <<>>
  THEN Rejected("Excel file is empty")
  ELSE ResolveCleaned(Headers(f.sheet),
                      CleanDataset(SheetData(f.sheet, Headers(f.sheet)),
                                   Headers(f.sheet)))

ParseDataset(f) ==
  IF f.ext = "json" THEN ParseJson(f)
  ELSE IF f.ext = "xlsx" THEN ParseExcel(f)
  ELSE Rejected("Unsupported file format")

\* analyzeData on the Dataset of a settled parseDataset: reading
\* row[columnName] in analyzeColumns throws on a row that is null.
AnalyzeThrows(dataset) ==
  /\ dataset.columns # <<>>
  /\ \E i \in DOMAIN dataset.data : dataset.data[i].isNull

AnalyzeDataset(dataset) ==
  AnalyzeData([i \in DOMAIN dataset.data |-> dataset.data[i].row], dataset.columns)

\* handleFileUpload from try to finally, the promise being settled as parsed:
\* a rejection only sets error; otherwise dataset is set before analyzeData
\* runs, and stays set when analyzeData throws.
AfterUpload(state, parsed) ==
  IF parsed.rejected
  THEN [state EXCEPT !.error = parsed.message, !.loading = FALSE]
  ELSE IF AnalyzeThrows(parsed.dataset)
  THEN [state EXCEPT !.dataset = parsed.dataset, !.error = "TypeError",
                     !.loading = FALSE]
  ELSE [state EXCEPT !.dataset = parsed.dataset,
                     !.analysis = AnalyzeDataset(parsed.dataset),
                     !.loading = FALSE]

\* The uploader is rendered: !dataset && !loading.
UploaderShown == app.dataset.isNull /\ ~app.loading

\* The New Analysis button is rendered: analysis is not null.
ResetShown == app.analysis # NoAnalysis

AppInit ==
  /\ origin = "dataset"
  /\ rawData = <<>>
  /\ columns = <<>>
  /\ data = <<>>
  /\ cleanStatus = "none"
  /\ cleanedData = <<>>
  /\ cleanedRefs = <<>>
  /\ cleaningReport = NoReport
  /\ recleanStatus = "none"
  /\ recleanedData = <<>>
  /\ recleanedRefs = <<>>
  /\ recleanReport = NoReport
  /\ analysisOf = "none"
  /\ analysis = NoAnalysis
  /\ app = AppStart
  /\ file = NoFile

\* handleFileUpload up to the await: the user hands a file to the uploader.
StartUpload ==
  /\ UploaderShown
  /\ \E f \in UploadFiles : file' = f
  /\ app' = [app EXCEPT !.loading = TRUE, !.error = ""]
  /\ UNCHANGED <<origin, rawData, columns, data, cleanStatus, cleanedData,
                 cleanedRefs, cleaningReport, recleanStatus, recleanedData,
                 recleanedRefs, recleanReport, analysisOf, analysis>>

\* handleFileUpload after the await.
FinishUpload ==
  /\ app.loading
  /\ app' = AfterUpload(app, ParseDataset(file))
  /\ file' = NoFile
  /\ UNCHANGED <<origin, rawData, columns, data, cleanStatus, cleanedData,
                 cleanedRefs, cleaningReport, recleanStatus, recleanedData,
                 recleanedRefs, recleanReport, analysisOf, analysis>>

\* resetAnalysis, by the New Analysis button.
ResetAnalysis ==
  /\ ResetShown
  /\ app' = [app EXCEPT !.dataset = NoDataset, !.analysis = NoAnalysis, !.error = ""]
  /\ UNCHANGED <<origin, rawData, columns, data, cleanStatus, cleanedData,
                 cleanedRefs, cleaningReport, recleanStatus, recleanedData,
                 recleanedRefs, recleanReport, analysisOf, analysis, file>>

AppNext == StartUpload \/ FinishUpload \/ ResetAnalysis

AppSpec == AppInit /\ [][AppNext]_vars

\* ------------------------------------------------------------------ claims

\* The rows handed to the analysis that was run.
AnalysedRows == IF analysisOf = "cleaned" THEN cleanedData ELSE data

\* The rows and the column analysis that steps 4 to 7 of the first run work on.
DedupedRows == RemoveDuplicateRows(RemoveEmptyRows(data))
CleaningInfo == AnalyzeColumnsForCleaning(DedupedRows, columns)

HasLine(report, pass) ==
  \E i \in DOMAIN report.cleaningActions : report.cleaningActions[i].pass = pass

\* C1: running clean on the rows a first run returned removes no row: the second
\* run returns, removes no duplicate and no empty row, and its cleanedRows
\* equals its originalRows.
C1_RecleanRemovesNoRow ==
  recleanStatus # "none" =>
    /\ recleanStatus = "returned"
    /\ recleanReport.removedDuplicates = 0
    /\ ~HasLine(recleanReport, "Removed completely empty rows")
    /\ recleanReport.cleanedRows = recleanReport.originalRows

\* C2: after clean returns, no cell of any listed column of any returned row is
\* null, undefined/absent or the empty string.
C2_ImputationComplete ==
  cleanStatus = "returned" =>
    \A r \in DOMAIN cleanedData : \A i \in DOMAIN columns :
      ~IsMissing(Get(cleanedData[r], columns[i]))

\* C2 witness: clean returned rows after filling missing cells in a numeric and
\* in a boolean column.
C2_Witness ==
  /\ cleanStatus = "returned"
  /\ cleanedData # <<>>
  /\ \E i, j \in DOMAIN columns :
       /\ CleaningInfo[i].type = "numeric"
       /\ CleaningInfo[j].type = "boolean"
       /\ \E r \in DOMAIN DedupedRows : IsMissing(Get(DedupedRows[r], columns[i]))
       /\ \E r \in DOMAIN DedupedRows : IsMissing(Get(DedupedRows[r], columns[j]))

\* C3: after clean returns, every value of a numeric column with more than 10
\* non-null values is a number within [Q1 - 1.5 IQR, Q3 + 1.5 IQR], the quartiles
\* being those of the post-dedup, pre-capping rows.
C3_OutlierBound ==
  cleanStatus = "returned" =>
    \A i \in DOMAIN columns :
      IsCapped(CleaningInfo[i]) =>
        \A r \in DOMAIN cleanedData :
          /\ IsNum(Get(cleanedData[r], columns[i]))
          /\ Ge(Get(cleanedData[r], columns[i]), LowerBound(CleaningInfo[i]))
          /\ Le(Get(cleanedData[r], columns[i]), UpperBound(CleaningInfo[i]))

\* C4: clean on zero rows, whatever the column list, returns no rows and a
\* report of zero counts with no action line.
C4_EmptyInputReturns ==
  (CleanCalled /\ data = <<>>) =>
    /\ cleanStatus = "returned"
    /\ cleanedData = <<>>
    /\ cleaningReport = NoReport

\* C5: on a dataset with at least one row (a single column, or a column that is
\* null in every row, included) clean returns a result (analyze always does).
C5_CleanReturns ==
  (CleanCalled /\ Len(data) >= 1) => cleanStatus = "returned"

\* C6: for a dataset with at least one column, the qualityScore analyze returns
\* is a number between 0 and 100.
C6_QualityScoreRange ==
  (analysisOf # "none" /\ Len(columns) >= 1) =>
    /\ IsNum(analysis.qualityScore)
    /\ Ge(analysis.qualityScore, Num(0))
    /\ Le(analysis.qualityScore, Num(100))

\* C7: for a numeric column whose numbers are all equal (stdDev = 0) analyze
\* reports skewness = 0 and kurtosis = 0.
C7_ZeroVarianceSentinel ==
  analysisOf # "none" =>
    \A i \in DOMAIN analysis.numericStats :
      analysis.numericStats[i].stdDev = Num(0) =>
        /\ analysis.numericStats[i].skewness = Num(0)
        /\ analysis.numericStats[i].kurtosis = Num(0)

\* C8: a report's originalRows is the number of rows given, its cleanedRows the
\* number of rows returned, and cleanedRows <= originalRows.
C8_RowCountMonotone ==
  /\ cleanStatus = "returned" =>
       /\ cleaningReport.originalRows = Len(data)
       /\ cleaningReport.cleanedRows = Len(cleanedData)
       /\ cleaningReport.cleanedRows <= cleaningReport.originalRows
  /\ recleanStatus = "returned" =>
       /\ recleanReport.originalRows = Len(cleanedData)
       /\ recleanReport.cleanedRows = Len(recleanedData)
       /\ recleanReport.cleanedRows <= recleanReport.originalRows

\* C8 witness: clean returned fewer rows than it was given.
C8_Witness ==
  /\ cleanStatus = "returned"
  /\ Len(cleanedData) < Len(data)
  /\ cleanedData # <<>>

\* The dataset of the worked example.
ExampleData ==
  <<MakeRow(<<"age", "city">>, <<Num(25), Str("NY")>>),
    MakeRow(<<"age", "city">>, <<Num(30), Str("NY")>>),
    MakeRow(<<"age", "city">>, <<Null, Str("LA")>>),
    MakeRow(<<"age", "city">>, <<Num(30), Str("NY")>>)>>

\* C9: on the worked example clean returns the rows {25,NY}, {30,NY}, {30,LA}
\* (the null age filled with the median 30) with removedDuplicates = 1 and
\* handledMissingValues = 1; analyze on them reports city categorical with
\* mostFrequent NY and age numeric with mean 85/3.
C9_WorkedExample ==
  (CleanCalled /\ data = ExampleData /\ columns = <<"age", "city">>) =>
    /\ cleanStatus = "returned"
    /\ cleanedData = <<MakeRow(<<"age", "city">>, <<Num(25), Str("NY")>>),
                       MakeRow(<<"age", "city">>, <<Num(30), Str("NY")>>),
                       MakeRow(<<"age", "city">>, <<Num(30), Str("LA")>>)>>
    /\ cleaningReport.removedDuplicates = 1
    /\ cleaningReport.handledMissingValues = 1
    /\ analysisOf = "cleaned" =>
         /\ analysis.columns[1].type = "numeric"
         /\ analysis.columns[2].type = "categorical"
         /\ Len(analysis.numericStats) = 1
         /\ analysis.numericStats[1].name = "age"
         /\ analysis.numericStats[1].mean = Rat(85, 3)
         /\ Len(analysis.categoricalStats) = 1
         /\ analysis.categoricalStats[1].name = "city"
         /\ analysis.categoricalStats[1].mostFrequent = Str("NY")

\* C9 witness: the worked example cleaned and analysed.
C9_Witness == data = ExampleData /\ analysisOf = "cleaned"

\* Columns i and j of the rows hold numbers only, column i is not constant, and
\* the points (row[i], row[j]) lie on one line of slope sign sgn (1 or -1).
OnLine(rows, ci, cj, sgn) ==
  /\ Len(rows) >= 2
  /\ \A r \in DOMAIN rows : IsNum(Get(rows[r], ci)) /\ IsNum(Get(rows[r], cj))
  /\ \E r, s \in DOMAIN rows : Get(rows[r], ci) # Get(rows[s], ci)
  /\ \A r, s \in DOMAIN rows :
       LET dx == Sub(Get(rows[s], ci), Get(rows[r], ci))
           dy == Sub(Get(rows[s], cj), Get(rows[r], cj))
       IN /\ dx.n # 0 => Sign(dy) = sgn * Sign(dx)
          /\ \A u \in DOMAIN rows :
               Mul(dx, Sub(Get(rows[u], cj), Get(rows[r], cj)))
                 = Mul(dy, Sub(Get(rows[u], ci), Get(rows[r], ci)))

\* The result holds exactly one entry for the pair, with this coefficient,
\* strength strong and this direction.
ReportsPair(ci, cj, coefficient, direction) ==
  /\ Cardinality({k \in DOMAIN analysis.correlations :
                    /\ analysis.correlations[k].column1 = ci
                    /\ analysis.correlations[k].column2 = cj}) = 1
  /\ \A k \in DOMAIN analysis.correlations :
       (analysis.correlations[k].column1 = ci /\ analysis.correlations[k].column2 = cj)
         => /\ analysis.correlations[k].coefficient = coefficient
            /\ analysis.correlations[k].strength = "strong"
            /\ analysis.correlations[k].direction = direction

\* C10: for two numeric columns x, y of at least 2 rows, x not constant and
\* y = a x + b in every row, the pair is retained with coefficient +1, direction
\* positive, strength strong when a > 0, and -1, negative, strong when a < 0.
C10_PerfectLinear ==
  analysisOf # "none" =>
    \A i, j \in DOMAIN columns :
      i < j =>
        /\ OnLine(AnalysedRows, columns[i], columns[j], 1)
             => ReportsPair(columns[i], columns[j], Num(1), "positive")
        /\ OnLine(AnalysedRows, columns[i], columns[j], -1)
             => ReportsPair(columns[i], columns[j], Num(-1), "negative")

\* C10 witness: x = [1, 2, 3], y = [9, 6, 3] analysed.
C10_Witness ==
  /\ analysisOf = "raw"
  /\ columns = <<"x", "y">>
  /\ data = <<MakeRow(<<"x", "y">>, <<Num(1), Num(9)>>),
              MakeRow(<<"x", "y">>, <<Num(2), Num(6)>>),
              MakeRow(<<"x", "y">>, <<Num(3), Num(3)>>)>>
  /\ OnLine(data, "x", "y", -1)

\* C11: pearsonCorrelation(x, y) = pearsonCorrelation(y, x) for the number
\* sequences of every two columns of an analysed dataset, and the coefficient
\* reported for a pair is the one computed with the two columns swapped.
C11_CorrelationSymmetry ==
  analysisOf # "none" =>
    /\ \A i, j \in DOMAIN columns :
         PearsonCorrelation(NumbersOf(AnalysedRows, columns[i]),
                            NumbersOf(AnalysedRows, columns[j]))
           = PearsonCorrelation(NumbersOf(AnalysedRows, columns[j]),
                                NumbersOf(AnalysedRows, columns[i]))
    /\ \A k \in DOMAIN analysis.correlations :
         analysis.correlations[k].coefficient
           = PearsonCorrelation(NumbersOf(AnalysedRows, analysis.correlations[k].column2),
                                NumbersOf(AnalysedRows, analysis.correlations[k].column1))

\* C11 witness: a pair is reported whose coefficient is neither 1 nor -1, over
\* columns whose sums of squares differ.
C11_Witness ==
  /\ analysisOf # "none"
  /\ \E k \in DOMAIN analysis.correlations :
       /\ analysis.correlations[k].coefficient \notin {Num(1), Num(-1)}
       /\ NumbersOf(AnalysedRows, analysis.correlations[k].column1)
            # NumbersOf(AnalysedRows, analysis.correlations[k].column2)

\* C12: clean and analyze leave their input as it was: after the first clean
\* the rows handed over are still the parsed sheet rows, a second clean and
\* analyze change neither the rows they are given nor any other dataset, and
\* every row clean returns is an object of its own making.
C12_NoInPlaceMutation ==
  /\ [](CleanCalled => data = SheetData(rawData, Headers(rawData)))
  /\ [](\A r \in DOMAIN cleanedRefs : cleanedRefs[r] = 0)
  /\ [](\A r \in DOMAIN recleanedRefs : recleanedRefs[r] = 0)
  /\ [][recleanStatus' # recleanStatus => cleanedData' = cleanedData]_vars
  /\ [][analysisOf' # analysisOf => (data' = data /\ cleanedData' = cleanedData)]_vars

\* C12 witness: a second clean has returned rows that differ from the rows it
\* was given, which themselves differ from the rows of the sheet.
C12_Witness ==
  /\ recleanStatus = "returned"
  /\ recleanedData # cleanedData
  /\ recleanedData # <<>>
  /\ cleanedData # data

\* C13: a second clean on the rows of a first changes nothing: it returns,
\* reports handledMissingValues = 0, outliersTreated = 0, dataTypeCorrections = 0
\* and no action line, and returns rows equal, column by column, to its input.
C13_RecleanNoOp ==
  recleanStatus # "none" =>
    /\ recleanStatus = "returned"
    /\ recleanReport.handledMissingValues = 0
    /\ recleanReport.outliersTreated = 0
    /\ recleanReport.dataTypeCorrections = 0
    /\ recleanReport.cleaningActions = <<>>
    /\ Len(recleanedData) = Len(cleanedData)
    /\ \A r \in DOMAIN recleanedData : \A i \in DOMAIN columns :
         r \in DOMAIN cleanedData =>
           Get(recleanedData[r], columns[i]) = Get(cleanedData[r], columns[i])

\* The cells of two columns, row by row, for the rows that hold a number in both.
AlignedPairs(rows, col1, col2) ==
  MapSeq(SelectSeq(rows, LAMBDA row : /\ TypeofNumber(Get(row, col1))
                                      /\ TypeofNumber(Get(row, col2))),
         LAMBDA row : <<Get(row, col1), Get(row, col2)>>)

\* C14: for every two numeric columns of an analysed dataset, each pair that
\* enters the Pearson computation is made of the two cells of one row, a row in
\* which neither cell is null or non-numeric.
C14_RowAlignedPairs ==
  analysisOf # "none" =>
    \A i, j \in DOMAIN analysis.columns :
      (i < j /\ analysis.columns[i].type = "numeric"
             /\ analysis.columns[j].type = "numeric") =>
        \A k \in DOMAIN PairsEntering(AnalysedRows, columns[i], columns[j]) :
          PairsEntering(AnalysedRows, columns[i], columns[j])[k]
            \in Range(AlignedPairs(AnalysedRows, columns[i], columns[j]))

\* Two rows give every listed column the same value, a missing key counting as null.
SameRow(row1, row2, cols) ==
  \A i \in DOMAIN cols :
    (IF Get(row1, cols[i]) = Undef THEN Null ELSE Get(row1, cols[i]))
      = (IF Get(row2, cols[i]) = Undef THEN Null ELSE Get(row2, cols[i]))

\* The first occurrence of each distinct row, in order.
FirstOfEachRow(rows, cols) ==
  Keep(rows, [r \in DOMAIN rows |->
                ~\E q \in 1..(r - 1) : SameRow(rows[q], rows[r], cols)])

\* C15: step 2 keeps, in order, exactly the first occurrence of each distinct
\* row (same row = same value in every column, whatever the key order, a
\* missing key counting as null), and removedDuplicates is the number of rows
\* it drops; for the first run and for a second run on its output.
C15_DuplicateRemoval ==
  /\ cleanStatus = "returned" =>
       /\ RemoveDuplicateRows(RemoveEmptyRows(data))
            = FirstOfEachRow(RemoveEmptyRows(data), columns)
       /\ cleaningReport.removedDuplicates
            = Len(RemoveEmptyRows(data)) - Len(FirstOfEachRow(RemoveEmptyRows(data), columns))
  /\ recleanStatus = "returned" =>
       /\ RemoveDuplicateRows(RemoveEmptyRows(cleanedData))
            = FirstOfEachRow(RemoveEmptyRows(cleanedData), columns)
       /\ recleanReport.removedDuplicates
            = Len(RemoveEmptyRows(cleanedData))
                - Len(FirstOfEachRow(RemoveEmptyRows(cleanedData), columns))

\* The place of a pass in the pipeline.
PassIndex(pass) ==
  CASE pass = "Removed completely empty rows" -> 1
    [] pass = "Removed duplicate rows" -> 2
    [] pass = "Filled missing values using statistical imputation" -> 3
    [] pass = "Capped outliers in column" -> 4
    [] pass = "Corrected data type inconsistencies" -> 5
    [] pass = "Removed rows with >50% missing data" -> 6

\* The action list of a report of a run given `given` rows and returning
\* `returned` rows: passes strictly in pipeline order (so at most one line per
\* pass), and a line for a pass exactly when the pass dropped or changed something.
LogShape(report, given, returned) ==
  /\ \A k \in 1..(Len(report.cleaningActions) - 1) :
       PassIndex(report.cleaningActions[k].pass)
         < PassIndex(report.cleaningActions[k + 1].pass)
  /\ HasLine(report, "Removed duplicate rows") <=> report.removedDuplicates > 0
  /\ HasLine(report, "Filled missing values using statistical imputation")
       <=> report.handledMissingValues > 0
  /\ HasLine(report, "Capped outliers in column") <=> report.outliersTreated > 0
  /\ HasLine(report, "Corrected data type inconsistencies")
       <=> report.dataTypeCorrections > 0
  /\ (HasLine(report, "Removed completely empty rows")
        \/ HasLine(report, "Removed rows with >50% missing data"))
       <=> given - report.removedDuplicates > returned

\* C16: the action list of every report has at most one line per pass, a line
\* for a pass exactly when the pass changed the data, and the lines in pipeline
\* order, also when outliers are capped in several columns.
C16_ActionLogShape ==
  /\ cleanStatus = "returned" => LogShape(cleaningReport, Len(data), Len(cleanedData))
  /\ recleanStatus = "returned"
       => LogShape(recleanReport, Len(cleanedData), Len(recleanedData))

\* A native number, or a string that reads as a number.
IsNumberOrNumericText(v) ==
  TypeofNumber(v) \/ (v.k = "str" /\ v # Str("") /\ ToNumber(v).k # "nan")

\* The type the cleaning path is to give a column with these non-null values.
ExpectedCleaningType(values) ==
  IF 10 * Len(SelectSeq(values, IsNumberOrNumericText)) > 7 * Len(values)
  THEN "numeric"
  ELSE IF \E k \in DOMAIN values :
            values[k].k = "bool" \/ ToLowerCase(StringOf(values[k])) \in BooleanWords
  THEN "boolean"
  ELSE "categorical"

\* C17: when clean returns, every column was classified numeric iff more than
\* 0.7 of its non-null values are native numbers or numeric strings (a native
\* boolean not counting), else boolean iff some value is a native boolean or
\* one of true/false/1/0/yes/no, else categorical; and a column whose non-null
\* values are all native booleans has its missing cells filled with false.
C17_CleaningClassification ==
  cleanStatus = "returned" =>
    \A i \in DOMAIN columns :
      /\ CleaningInfo[i].type = ExpectedCleaningType(NonEmptyValues(DedupedRows, columns[i]))
      /\ (\A k \in DOMAIN CleaningInfo[i].values : CleaningInfo[i].values[k].k = "bool")
           => \A r \in DOMAIN DedupedRows :
                (r \in DOMAIN cleanedData /\ IsMissing(Get(DedupedRows[r], columns[i])))
                  => Get(cleanedData[r], columns[i]) = Bool(FALSE)

\* One of the strings true/false/1/0/yes/no, case-insensitively.
IsBooleanWord(v) == v.k = "str" /\ ToLowerCase(v) \in BooleanWords

\* The type the report path is to give a column with these non-null values.
ExpectedReportType(values) ==
  IF values # <<>> /\ 10 * Len(SelectSeq(values, IsNumberOrNumericText)) > 8 * Len(values)
  THEN "numeric"
  ELSE IF \E k \in DOMAIN values : values[k].k = "bool" \/ IsBooleanWord(values[k])
  THEN "boolean"
  ELSE IF \E k \in DOMAIN values : IsDateString(values[k])
  THEN "datetime"
  ELSE "categorical"

\* C18: after analyze, every column is classified numeric iff more than 0.8 of
\* its non-null values are native numbers or numeric strings, else boolean iff
\* some value is a native boolean or one of true/false/1/0/yes/no, else
\* datetime iff some value is a date string, else categorical.
C18_ReportClassification ==
  analysisOf # "none" =>
    \A i \in DOMAIN columns :
      /\ analysis.columns[i].type \in {"numeric", "boolean", "datetime", "categorical"}
      /\ analysis.columns[i].type
           = ExpectedReportType(NonEmptyValues(AnalysedRows, columns[i]))

\* The first entry, in entry order, whose count no entry exceeds.
FirstMaximal(entries) ==
  entries[CHOOSE i \in DOMAIN entries :
            /\ \A j \in DOMAIN entries : entries[j].count <= entries[i].count
            /\ \A j \in 1..(i - 1) : entries[j].count < entries[i].count]

\* The entries of the frequency object calculateNumericStats builds for col.
NumericEntries(rows, col) ==
  FrequencyEntries(MapSeq(
    SortAsc(SelectSeq(MapSeq(rows, LAMBDA row : Get(row, col)), IsNativeNumber)),
    StringOf))

\* C19: NumericStats.mode after analyze, and the imputation mode of a
\* categorical column when clean returns, is the first entry of maximal count
\* in the entry order of the column's frequency object.
C19_ModeTieBreak ==
  /\ analysisOf # "none" =>
       \A k \in DOMAIN analysis.numericStats :
         analysis.numericStats[k].mode
           = ToNumber(FirstMaximal(
               NumericEntries(AnalysedRows, analysis.numericStats[k].name)).value)
  /\ cleanStatus = "returned" =>
       \A i \in DOMAIN columns :
         (CleaningInfo[i].type = "categorical" /\ CleaningInfo[i].values # <<>>)
           => CleaningInfo[i].mode
                = FirstMaximal(FrequencyEntries(
                    MapSeq(CleaningInfo[i].values, StringOf))).value

\* The position at which key is first seen in keys.
FirstSeen(keys, key) == CHOOSE i \in DOMAIN keys :
  keys[i] = key /\ \A j \in 1..(i - 1) : keys[j] # key

RECURSIVE SumCounts(_)
SumCounts(entries) ==
  IF entries = <<>> THEN 0 ELSE entries[1].count + SumCounts(Tail(entries))

\* The frequency table st is the one asked for the column values keys.
IsFrequencyTable(st, keys) ==
  LET top == st.topCategories
  IN /\ {top[i].value : i \in DOMAIN top} = Range(keys)
     /\ \A i, j \in DOMAIN top : top[i].value = top[j].value => i = j
     /\ \A i \in DOMAIN top :
          top[i].count = Cardinality({j \in DOMAIN keys : keys[j] = top[i].value})
     /\ \A i, j \in DOMAIN top : i < j => top[i].count >= top[j].count
     /\ \A i, j \in DOMAIN top :
          (i < j /\ top[i].count = top[j].count)
            => FirstSeen(keys, top[i].value) < FirstSeen(keys, top[j].value)
     /\ SumCounts(top) = Len(keys)
     /\ st.uniqueCount = Len(top)
     /\ st.mostFrequent = top[1].value
     /\ st.leastFrequent = top[Len(top)].value

\* C20: after analyze, every categorical column with a non-null value has a
\* frequency table listing each distinct value once with its count, counts
\* non-increasing, equal counts in first-seen order, counts summing to the
\* number of non-null values, uniqueCount the list length, mostFrequent the
\* first entry and leastFrequent the last.
C20_CategoricalTable ==
  analysisOf # "none" =>
    \A i \in DOMAIN columns :
      (analysis.columns[i].type = "categorical"
         /\ NonEmptyValues(AnalysedRows, columns[i]) # <<>>)
        => \E k \in DOMAIN analysis.categoricalStats :
             /\ analysis.categoricalStats[k].name = columns[i]
             /\ IsFrequencyTable(analysis.categoricalStats[k],
                    MapSeq(NonEmptyValues(AnalysedRows, columns[i]), StringOf))

\* The columns the report classifies numeric.
IsNumericColumn(col) ==
  \E i \in DOMAIN analysis.columns :
    analysis.columns[i].name = col /\ analysis.columns[i].type = "numeric"

\* C21: after analyze, every correlation entry joins two different numeric
\* columns that each hold at least 2 numbers, no two entries join the same
\* unordered pair, |coefficient| > 0.1, strength is weak iff |coefficient| <
\* 0.3, moderate iff 0.3 <= |coefficient| < 0.7, strong iff |coefficient| >=
\* 0.7, and direction is positive iff coefficient > 0.
C21_CorrelationList ==
  analysisOf # "none" =>
    /\ \A k \in DOMAIN analysis.correlations :
         LET c == analysis.correlations[k]
         IN /\ c.column1 # c.column2
            /\ IsNumericColumn(c.column1) /\ IsNumericColumn(c.column2)
            /\ Len(NumbersOf(AnalysedRows, c.column1)) >= 2
            /\ Len(NumbersOf(AnalysedRows, c.column2)) >= 2
            /\ AbsGt(c.coefficient, Rat(1, 10))
            /\ c.strength \in {"weak", "moderate", "strong"}
            /\ c.strength = "weak" <=> AbsLt(c.coefficient, Rat(3, 10))
            /\ c.strength = "moderate" <=>
                 (~AbsLt(c.coefficient, Rat(3, 10)) /\ AbsLt(c.coefficient, Rat(7, 10)))
            /\ c.strength = "strong" <=> ~AbsLt(c.coefficient, Rat(7, 10))
            /\ c.direction \in {"positive", "negative"}
            /\ c.direction = "positive" <=> (c.coefficient.k # "nan" /\ c.coefficient.n > 0)
    /\ \A k, l \in DOMAIN analysis.correlations :
         {analysis.correlations[k].column1, analysis.correlations[k].column2}
           = {analysis.correlations[l].column1, analysis.correlations[l].column2}
         => k = l

\* C21 witness: an analysis that reports a moderate negative correlation.
C21_Witness ==
  /\ analysisOf # "none"
  /\ \E k \in DOMAIN analysis.correlations :
       /\ analysis.correlations[k].strength = "moderate"
       /\ analysis.correlations[k].direction = "negative"

\* The numbers of a column that are not NaN, in ascending order.
SortedNumbers(rows, col) ==
  SortAsc(SelectSeq(MapSeq(rows, LAMBDA row : Get(row, col)), IsNativeNumber))

\* st holds the index statistics of the ascending sequence sorted (n >= 1).
IsIndexStatistics(st, sorted) ==
  /\ st.median = sorted[(Len(sorted) \div 2) + 1]
  /\ st.q1 = sorted[(Len(sorted) \div 4) + 1]
  /\ st.q3 = sorted[((3 * Len(sorted)) \div 4) + 1]
  /\ st.min = sorted[1]
  /\ st.max = sorted[Len(sorted)]
  /\ Le(st.min, st.q1) /\ Le(st.q1, st.median)
  /\ Le(st.median, st.q3) /\ Le(st.q3, st.max)
  /\ st.iqr = Sub(st.q3, st.q1) /\ Ge(st.iqr, Num(0))
  /\ st.range = Sub(st.max, st.min) /\ Ge(st.range, Num(0))

\* The values of a column that the cleaning path takes as numeric, as numbers
\* in ascending order.
SortedCleaningNumbers(values) ==
  SortAsc(MapSeq(SelectSeq(values, IsNumericForCleaning), ToNumber))

\* C22: after analyze, every numeric column with a number has statistics with
\* median = s[floor(n/2)], q1 = s[floor(n/4)], q3 = s[floor(3n/4)], min = s[0],
\* max = s[n-1] over its ascending numbers s, min <= q1 <= median <= q3 <= max,
\* iqr = q3 - q1 >= 0 and range = max - min >= 0; and when clean returns, the
\* imputation median and capping quartiles of every numeric column follow the
\* same index rule.
C22_IndexQuartiles ==
  /\ analysisOf # "none" =>
       \A i \in DOMAIN columns :
         (analysis.columns[i].type = "numeric"
            /\ SortedNumbers(AnalysedRows, columns[i]) # <<>>)
           => \E k \in DOMAIN analysis.numericStats :
                /\ analysis.numericStats[k].name = columns[i]
                /\ IsIndexStatistics(analysis.numericStats[k],
                                     SortedNumbers(AnalysedRows, columns[i]))
  /\ cleanStatus = "returned" =>
       \A i \in DOMAIN columns :
         CleaningInfo[i].type = "numeric" =>
           LET sorted == SortedCleaningNumbers(CleaningInfo[i].values)
           IN /\ CleaningInfo[i].median = sorted[(Len(sorted) \div 2) + 1]
              /\ CleaningInfo[i].q1 = sorted[(Len(sorted) \div 4) + 1]
              /\ CleaningInfo[i].q3 = sorted[((3 * Len(sorted)) \div 4) + 1]

\* The rule that emits insights of a type, in emission order.
RuleIndex(type) ==
  CASE type = "quality" -> 1
    [] type = "correlation" -> 2
    [] type = "anomaly" -> 3
    [] type = "distribution" -> 4
    [] type = "recommendation" -> 5

ColumnIndex(name) == CHOOSE i \in DOMAIN columns : columns[i] = name

\* The loops over the column list visit a before b.
ColumnBefore(a, b) == ColumnIndex(a) < ColumnIndex(b)

\* The loops over the entries of the statistics object visit a before b:
\* names that are array indices first, ascending, then the others in column
\* order.
EntryBefore(a, b) ==
  IF a \in IndexNames
  THEN b \notin IndexNames \/ IndexOfName(a) < IndexOfName(b)
  ELSE b \notin IndexNames /\ ColumnBefore(a, b)

\* Within one rule, the insight a is emitted before the insight b.
EmittedBefore(a, b) ==
  CASE a.type \in {"quality", "recommendation"} -> ColumnBefore(a.about[1], b.about[1])
    [] a.type = "correlation" ->
         \/ ColumnBefore(a.about[1], b.about[1])
         \/ a.about[1] = b.about[1] /\ ColumnBefore(a.about[2], b.about[2])
    [] OTHER -> EntryBefore(a.about[1], b.about[1])

\* C23: in the insights of an analysis no insight of lower severity precedes
\* one of higher severity, and insights of equal severity are in emission
\* order: by rule (missing data, correlation, outlier, skewness, low
\* cardinality), and within a rule in the order the rule visits its columns
\* or pairs.
C23_InsightOrder ==
  analysisOf # "none" =>
    \A i, j \in DOMAIN analysis.insights :
      i < j =>
        LET a == analysis.insights[i]
            b == analysis.insights[j]
        IN /\ SeverityOrder(a.severity) >= SeverityOrder(b.severity)
           /\ a.severity = b.severity =>
                /\ RuleIndex(a.type) <= RuleIndex(b.type)
                /\ a.type = b.type => EmittedBefore(a, b)

\* C23 witness: an analysis whose insights hold all three severities and all
\* five rules, with two insights of one rule.
C23_Witness ==
  /\ analysisOf # "none"
  /\ {analysis.insights[i].severity : i \in DOMAIN analysis.insights}
       = {"high", "medium", "low"}
  /\ {analysis.insights[i].type : i \in DOMAIN analysis.insights}
       = {"quality", "correlation", "anomaly", "distribution", "recommendation"}
  /\ \E i, j \in DOMAIN analysis.insights :
       i # j /\ analysis.insights[i].type = analysis.insights[j].type

\* The rules of generateRecommendations in priority order.
RecommendationRules ==
  <<"highMissingData", "lowCardinality", "correlationAnalysis", "removeDuplicates",
    "largeDataset", "outliers">>

\* The number of distinct non-null values of a column.
UniqueCount(rows, col) == Cardinality(Range(NonEmptyValues(rows, col)))

\* More than 20% of the cells of the column are null.
HighMissing(rows, col) ==
  100 * (Len(rows) - Len(NonEmptyValues(rows, col))) > 20 * Len(rows)

\* Unique count above 1 and below 10% of the row count.
LowCardinality(rows, col) ==
  UniqueCount(rows, col) > 1 /\ 10 * UniqueCount(rows, col) < Len(rows)

\* The number of rows equal to an earlier row.
RepeatedRows(rows) ==
  Cardinality({j \in DOMAIN rows : \E i \in 1..(j - 1) : rows[i] = rows[j]})

\* The condition of each rule.
RuleHolds(rule) ==
  CASE rule = "highMissingData" ->
         \E i \in DOMAIN columns : HighMissing(AnalysedRows, columns[i])
    [] rule = "lowCardinality" ->
         \E i \in DOMAIN columns : LowCardinality(AnalysedRows, columns[i])
    [] rule = "correlationAnalysis" ->
         Cardinality({i \in DOMAIN columns : analysis.columns[i].type = "numeric"}) > 1
    [] rule = "removeDuplicates" -> RepeatedRows(AnalysedRows) > 0
    [] rule = "largeDataset" -> Len(AnalysedRows) > 10000
    [] rule = "outliers" ->
         \E i \in DOMAIN analysis.insights : analysis.insights[i].type = "anomaly"

\* C24: analyze returns at most 6 recommendations: the rules whose condition
\* holds, one string each, in priority order; the low-cardinality string names
\* at most 3 columns, each of them a low-cardinality column.
C24_Recommendations ==
  analysisOf # "none" =>
    /\ Len(analysis.recommendations) <= 6
    /\ [i \in DOMAIN analysis.recommendations |-> analysis.recommendations[i].rule]
         = SelectSeq(RecommendationRules, RuleHolds)
    /\ \A i \in DOMAIN analysis.recommendations :
         analysis.recommendations[i].rule = "lowCardinality" =>
           /\ Len(analysis.recommendations[i].names) <= 3
           /\ \A k \in DOMAIN analysis.recommendations[i].names :
                LowCardinality(AnalysedRows, analysis.recommendations[i].names[k])

\* C24 witness: an analysis with five recommendations and four
\* low-cardinality columns.
C24_Witness ==
  /\ analysisOf # "none"
  /\ Len(analysis.recommendations) = 5
  /\ Cardinality({i \in DOMAIN columns : LowCardinality(AnalysedRows, columns[i])}) = 4

\* The rows a run of clean holds after steps 1 and 2, given rows.
AfterDedup(rows) == RemoveDuplicateRows(RemoveEmptyRows(rows))

\* The non-missing cells of a row under the listed columns.
FilledCells(row, cols) == Cardinality({i \in DOMAIN cols : ~IsMissing(Get(row, cols[i]))})

\* C25: in every run of clean that returns, the sparse-row pass drops no row
\* (the rows returned are as many as steps 1 and 2 left) and its action line
\* is not in the report.
C25_SparsePassInert ==
  /\ cleanStatus = "returned" =>
       /\ Len(cleanedData) = Len(AfterDedup(data))
       /\ ~HasLine(cleaningReport, "Removed rows with >50% missing data")
  /\ recleanStatus = "returned" =>
       /\ Len(recleanedData) = Len(AfterDedup(cleanedData))
       /\ ~HasLine(recleanReport, "Removed rows with >50% missing data")

\* C25 witness: clean returned a row that came in with fewer than half of its
\* cells filled.
C25_Witness ==
  /\ cleanStatus = "returned"
  /\ cleanedData # <<>>
  /\ \E r \in DOMAIN AfterDedup(data) :
       2 * FilledCells(AfterDedup(data)[r], columns) < Len(columns)

\* C26: when analyze is run on at least one row returned by clean, every
\* column has nullCount = 0 and nullPercentage = 0, qualityScore is 100,
\* summary.missingValuePercentage is 0, no insight has type quality and there
\* is no high-missing-data recommendation.
C26_CleanThenAnalyze ==
  (analysisOf = "cleaned" /\ cleanedData # <<>>) =>
    /\ \A i \in DOMAIN analysis.columns :
         /\ analysis.columns[i].nullCount = 0
         /\ analysis.columns[i].nullPercentage = Num(0)
    /\ analysis.qualityScore = Num(100)
    /\ analysis.summary.missingValuePercentage = Num(0)
    /\ \A k \in DOMAIN analysis.insights : analysis.insights[k].type # "quality"
    /\ \A k \in DOMAIN analysis.recommendations :
         analysis.recommendations[k].rule # "highMissingData"

\* C26 witness: analyze was run on cleaned rows of a sheet in which more than
\* 20% of the cells of a column were missing.
C26_Witness ==
  /\ analysisOf = "cleaned"
  /\ cleanedData # <<>>
  /\ \E i \in DOMAIN columns : HighMissing(AfterDedup(data), columns[i])
  /\ cleaningReport.handledMissingValues > 0

\* C27: in every reachable state of the App in which loading is false, the
\* uploader is shown (dataset is null) or the New Analysis button is shown
\* (analysis is not null).
C27_NeverStuck == ~app.loading => (UploaderShown \/ ResetShown)

\* The rows whose cell under col step 4 fills.
ImputedRowsOf(rows, col) == {r \in DOMAIN rows : IsMissing(Get(rows[r], col))}

\* lower <= value <= upper
Within(value, lower, upper) == Ge(value, lower) /\ Le(value, upper)

\* The count named in the capping line of a column, 0 when there is none.
CappedCount(report, col) ==
  IF \E k \in DOMAIN report.cleaningActions :
       report.cleaningActions[k].column = col
  THEN report.cleaningActions[CHOOSE k \in DOMAIN report.cleaningActions :
                                report.cleaningActions[k].column = col].count
  ELSE 0

\* The number cells of a column that came in filled and went out changed.
ChangedNumbers(before, after, col) ==
  {r \in DOMAIN before : /\ TypeofNumber(Get(before[r], col))
                         /\ Get(after[r], col) # Get(before[r], col)}

\* In a run of clean from the rows before (after steps 1 and 2) to the rows
\* after: the imputed cells of a capped column keep the imputed value and are
\* not among the outliers counted.
ImputedCellsKept(before, after, report, cols) ==
  \A i \in DOMAIN cols :
    LET info == AnalyzeColumnForCleaning(NonEmptyValues(before, cols[i]))
    IN (IsCapped(info) /\ ImputedRowsOf(before, cols[i]) # {}) =>
         /\ \A r \in ImputedRowsOf(before, cols[i]) :
              Get(after[r], cols[i]) = ImputedValue(info)
         /\ CappedCount(report, cols[i])
              = Cardinality(ChangedNumbers(before, after, cols[i]))

\* In a run of clean on the rows before: the imputed median of a capped column
\* lies within the column's capping bounds.
MedianWithinBounds(before, cols) ==
  \A i \in DOMAIN cols :
    LET info == AnalyzeColumnForCleaning(NonEmptyValues(before, cols[i]))
    IN (IsCapped(info) /\ ImputedRowsOf(before, cols[i]) # {}) =>
         Within(ImputedValue(info), LowerBound(info), UpperBound(info))

\* C28: in every run of clean that returns, the median that fills the missing
\* cells of a capped numeric column lies within [Q1 - 1.5 IQR, Q3 + 1.5 IQR],
\* and the filled cells are neither changed by the capping pass nor counted in
\* its line.
C28_ImputedNeverCapped ==
  /\ cleanStatus = "returned" =>
       /\ MedianWithinBounds(AfterDedup(data), columns)
       /\ ImputedCellsKept(AfterDedup(data), cleanedData, cleaningReport, columns)
  /\ recleanStatus = "returned" =>
       /\ MedianWithinBounds(AfterDedup(cleanedData), columns)
       /\ ImputedCellsKept(AfterDedup(cleanedData), recleanedData, recleanReport,
                           columns)

\* The lines of a report pushed by the pass named.
LinesOf(report, pass) ==
  SelectSeq(report.cleaningActions, LAMBDA line : line.pass = pass)

\* The missing cells of the rows under the columns listed.
MissingUnder(rows, cols) ==
  {rc \in (DOMAIN rows) \X (DOMAIN cols) : ~HasKey(rows[rc[1]], cols[rc[2]])
     \/ Get(rows[rc[1]], cols[rc[2]]) \in {Null, Undef, Str("")}}

\* The report of a run of clean from the rows input to the rows output adds up.
ReportAddsUp(input, output, report, cols) ==
  /\ report.originalRows = Len(input)
  /\ report.cleanedRows = Len(output)
  /\ report.originalRows - report.cleanedRows
       = SumCounts(LinesOf(report, "Removed completely empty rows"))
         + report.removedDuplicates
         + SumCounts(LinesOf(report, "Removed rows with >50% missing data"))
  /\ report.handledMissingValues = Cardinality(MissingUnder(AfterDedup(input), cols))
  /\ report.outliersTreated = SumCounts(LinesOf(report, "Capped outliers in column"))

\* C29: in the report of every run of clean that returns, originalRows is the
\* number of rows given and cleanedRows the number returned, their difference
\* is the rows dropped as empty plus removedDuplicates plus the rows dropped as
\* sparse, handledMissingValues is the number of null/undefined/'' cells under
\* the listed columns after duplicate removal, and outliersTreated is the sum
\* of the counts in the capping lines.
C29_ReportAccounting ==
  /\ cleanStatus = "returned" => ReportAddsUp(data, cleanedData, cleaningReport, columns)
  /\ recleanStatus = "returned" =>
       ReportAddsUp(cleanedData, recleanedData, recleanReport, columns)

\* C29 witness: clean returned a report with two capping lines and a filled
\* cell.
C29_Witness ==
  /\ cleanStatus = "returned"
  /\ Len(LinesOf(cleaningReport, "Capped outliers in column")) = 2
  /\ cleaningReport.handledMissingValues > 0

\* The counts named by the duplicate-removal recommendations of a result.
DuplicateCountsNamed(result) ==
  {result.recommendations[k].count :
     k \in {j \in DOMAIN result.recommendations :
              result.recommendations[j].rule = "removeDuplicates"}}

====
